---- MODULE Spec2Model ----
(***************************************************************************)
(* Model of the TMS freight-report pipeline of qybersec/Basic_Processor:   *)
(* ModernTMSProcessor (basic_processor.py) and TMSProcessor                *)
(* (core_logic.py).  A raw grid is normalised into a dataframe, the        *)
(* business rules are applied in order, the rows are sorted and the        *)
(* summary statistics are computed.                                        *)
(*                                                                         *)
(* Text is modelled as sequences of one-character strings so that upper(), *)
(* strip(), split('/') and replace() are computed.  A cell is NaN, a       *)
(* number or a text.                                                       *)
(***************************************************************************)
EXTENDS Integers, Sequences, FiniteSets, TLC

(***************************************************************************)
(* Characters and text                                                     *)
(***************************************************************************)
LowerLetters ==
  <<"a","b","c","d","e","f","g","h","i","j","k","l","m",
    "n","o","p","q","r","s","t","u","v","w","x","y","z">>

UpperLetters ==
  <<"A","B","C","D","E","F","G","H","I","J","K","L","M",
    "N","O","P","Q","R","S","T","U","V","W","X","Y","Z">>

DigitChars == <<"0","1","2","3","4","5","6","7","8","9">>

\* the upper-case letter of each lower-case letter
UpperOf == [c \in {LowerLetters[i] : i \in 1..26} |->
              UpperLetters[CHOOSE i \in 1..26 : LowerLetters[i] = c]]

\* the lower-case letter of each upper-case letter
LowerOf == [c \in {UpperLetters[i] : i \in 1..26} |->
              LowerLetters[CHOOSE i \in 1..26 : UpperLetters[i] = c]]

\* str.upper() on one character
UpperChar(c) == IF c \in DOMAIN UpperOf THEN UpperOf[c] ELSE c

\* str.upper()
Upper(s) == [i \in 1..Len(s) |-> UpperChar(s[i])]

\* str.lower()
Lower(s) == [i \in 1..Len(s) |-> IF s[i] \in DOMAIN LowerOf THEN LowerOf[s[i]] ELSE s[i]]

\* str.strip(): leading and trailing blanks removed
Strip(s) ==
  LET idx == {i \in 1..Len(s) : s[i] # " "}
  IN IF idx = {} THEN <<>>
     ELSE LET lo == CHOOSE i \in idx : \A j \in idx : i <= j
              hi == CHOOSE i \in idx : \A j \in idx : j <= i
          IN SubSeq(s, lo, hi)

\* str.replace(a, b) for single characters
ReplaceChar(s, a, b) == [i \in 1..Len(s) |-> IF s[i] = a THEN b ELSE s[i]]

\* t in s  (substring test)
Contains(s, t) ==
  \E i \in 1..(Len(s) - Len(t) + 1) :
     /\ s[i] = t[1]
     /\ SubSeq(s, i, i + Len(t) - 1) = t

\* '/' in s
HasSlash(s) == \E i \in 1..Len(s) : s[i] = "/"

\* s.split('/')[-1]
AfterLastSlash(s) ==
  LET idx == {i \in 1..Len(s) : s[i] = "/"}
  IN IF idx = {} THEN s
     ELSE LET hi == CHOOSE i \in idx : \A j \in idx : j <= i
          IN SubSeq(s, hi + 1, Len(s))

DigitOf == [c \in {DigitChars[i] : i \in 1..10} |->
              (CHOOSE i \in 1..10 : DigitChars[i] = c) - 1]

IsDigit(c) == c \in DOMAIN DigitOf

DigitVal(c) == DigitOf[c]

\* str.isdigit(): non-empty and all digits
IsDigitStr(s) == Len(s) > 0 /\ \A i \in 1..Len(s) : IsDigit(s[i])

RECURSIVE DigitsToNat(_)
DigitsToNat(s) ==
  IF s = <<>> THEN 0
  ELSE 10 * DigitsToNat(SubSeq(s, 1, Len(s) - 1)) + DigitVal(s[Len(s)])

RECURSIVE NatToDigits(_)
NatToDigits(n) ==
  IF n < 10 THEN <<DigitChars[n + 1]>>
  ELSE NatToDigits(n \div 10) \o <<DigitChars[(n % 10) + 1]>>

(***************************************************************************)
(* Cells                                                                   *)
(***************************************************************************)
NaN == [k |-> "nan"]
Num(n) == [k |-> "num", n |-> n]
Str(s) == [k |-> "str", s |-> s]

IsNaN(c) == c.k = "nan"
IsNum(c) == c.k = "num"
IsStr(c) == c.k = "str"

NanText == <<"n","a","n">>
NoneText == <<"N","o","n","e">>

\* str(value) / Series.astype(str)
AsStr(c) ==
  CASE c.k = "nan" -> NanText
    [] c.k = "str" -> c.s
    [] c.k = "num" -> IF c.n < 0 THEN <<"-">> \o NatToDigits(0 - c.n)
                      ELSE NatToDigits(c.n)

\* pd.to_numeric(value, errors='coerce')
ToNumeric(c) ==
  CASE c.k = "nan" -> NaN
    [] c.k = "num" -> c
    [] c.k = "str" ->
         LET t == Strip(c.s)
         IN IF IsDigitStr(t) THEN Num(DigitsToNat(t))
            ELSE IF Len(t) > 1 /\ t[1] = "-" /\ IsDigitStr(Tail(t))
                   THEN Num(0 - DigitsToNat(Tail(t)))
                   ELSE NaN

\* Series.fillna(0)
FillNa0(c) == IF IsNaN(c) THEN Num(0) ELSE c

(***************************************************************************)
(* Columns and dataframes                                                  *)
(*                                                                         *)
(* A dataframe is [cols |-> sequence of column names, rows |-> sequence of *)
(* rows], a row being a function from the column names to cells.           *)
(***************************************************************************)
base_column_names ==
  << "Load No.", "Ship Date", "Origin City", "Origin State", "Origin Postal",
     "Destination City", "Destination State", "Destination Postal",
     "Selected Carrier", "Selected Service Type", "Selected Transit Days",
     "Selected Freight Cost", "Selected Accessorial Cost", "Selected Total Cost",
     "Least Cost Carrier", "Least Cost Service Type", "Least Cost Transit Days",
     "Least Cost Freight Cost", "Least Cost Accessorial Cost", "Least Cost Total Cost",
     "Potential Savings" >>

numeric_columns ==
  << "Selected Transit Days", "Selected Freight Cost", "Selected Accessorial Cost",
     "Selected Total Cost", "Least Cost Transit Days", "Least Cost Freight Cost",
     "Least Cost Accessorial Cost", "Least Cost Total Cost", "Potential Savings" >>

string_columns ==
  << "Load No.", "Origin City", "Origin State", "Origin Postal",
     "Destination City", "Destination State", "Destination Postal",
     "Selected Carrier", "Selected Service Type",
     "Least Cost Carrier", "Least Cost Service Type" >>

core_string_columns ==
  << "Selected Carrier", "Selected Service Type",
     "Least Cost Carrier", "Least Cost Service Type" >>

column_pairs ==
  << <<"Selected Carrier", "Least Cost Carrier">>,
     <<"Selected Service Type", "Least Cost Service Type">>,
     <<"Selected Transit Days", "Least Cost Transit Days">>,
     <<"Selected Freight Cost", "Least Cost Freight Cost">>,
     <<"Selected Accessorial Cost", "Least Cost Accessorial Cost">>,
     <<"Selected Total Cost", "Least Cost Total Cost">> >>

Range(f) == {f[i] : i \in DOMAIN f}

\* F applied to the value of v, v being evaluated once
Bind(v, F(_)) == CHOOSE y \in {F(x) : x \in {v}} : TRUE

\* name in df.columns
HasCol(df, name) == name \in Range(df.cols)

\* number of non-null values of a row
NonNullCount(row) == Cardinality({c \in DOMAIN row : ~IsNaN(row[c])})

(***************************************************************************)
(* Raw grid                                                                *)
(*                                                                         *)
(* grid.ncols is the number of columns of the sheet; a raw row holds the   *)
(* cells of the sheet columns 2 .. ncols-1 (columns 0 and 1 are the margin *)
(* and are blank in data rows), so sheet column p is element p-1 of a row. *)
(* grid.rows are the sheet rows from data_start_row on, grid.headers the   *)
(* labels of the header row over the same columns.                         *)
(***************************************************************************)
Min(a, b) == IF a < b THEN a ELSE b

Date(y, m, d) == [k |-> "date", y |-> y, m |-> m, d |-> d]

TwoDigits(n) == <<DigitChars[((n \div 10) % 10) + 1], DigitChars[(n % 10) + 1]>>

\* pd.to_datetime(value, errors='coerce') followed by strftime('%m/%d/%y')
FormatShipDate(c) ==
  CASE c.k = "date" -> Str(TwoDigits(c.m) \o <<"/">> \o TwoDigits(c.d) \o <<"/">> \o TwoDigits(c.y))
    [] c.k = "num"  -> IF c.n >= 0 THEN Str(<<"0","1","/","0","1","/","7","0">>)
                       ELSE Str(<<"1","2","/","3","1","/","6","9">>)
    [] OTHER        -> NaN

\* ' '.join(parts)
RECURSIVE JoinText(_)
JoinText(parts) ==
  IF parts = <<>> THEN <<>>
  ELSE IF Len(parts) = 1 THEN parts[1]
       ELSE parts[1] \o <<" ">> \o JoinText(Tail(parts))

\* str(val) for val in row.dropna().tolist()
RowTexts(r) ==
  LET present == SelectSeq(r, LAMBDA c : ~IsNaN(c))
  IN [i \in 1..Len(present) |->
        IF present[i].k = "date" THEN FormatShipDate(present[i]).s ELSE AsStr(present[i])]

duplicate_header_indicators ==
  { <<"L","o","a","d"," ","N","o",".">>,
    <<"C","a","r","r","i","e","r">>,
    <<"S","e","r","v","i","c","e"," ","T","y","p","e">> }

\* str(val).startswith('A') and str(val)[1:].isdigit()
LooksLikeLoadId(t) == Len(t) >= 1 /\ t[1] = "A" /\ IsDigitStr(Tail(t))

IsDuplicateHeaderRow(r) ==
  LET texts == RowTexts(r)
      row_str == JoinText(texts)
  IN /\ \E ind \in duplicate_header_indicators : Contains(row_str, ind)
     /\ ~ \E i \in 1..Len(texts) : LooksLikeLoadId(texts[i])

\* ModernTMSProcessor._remove_duplicate_headers
remove_duplicate_headers(rows) ==
  SelectSeq(rows, LAMBDA r : ~IsDuplicateHeaderRow(r))

\* data_df.dropna(how='all')
DropAllNa(rows) == SelectSeq(rows, LAMBDA r : \E i \in 1..Len(r) : ~IsNaN(r[i]))

\* relevant_columns = list(range(2, max_cols + 1)) with max_cols = min(22, ncols)
relevant_columns(ncols) ==
  LET max_cols == Min(22, ncols)
  IN [i \in 1..(IF max_cols >= 2 THEN max_cols - 1 ELSE 0) |-> i + 1]

\* data_df.iloc[:, relevant_columns] raises IndexError when a position is
\* outside 0 .. ncols-1
ColumnSliceRaises(ncols) ==
  \E i \in 1..Len(relevant_columns(ncols)) : relevant_columns(ncols)[i] >= ncols

\* the canonical names given to n extracted columns (n <= 21 by construction)
column_names(n) ==
  IF n < Len(base_column_names) THEN SubSeq(base_column_names, 1, n)
  ELSE base_column_names

\* the dataframe of the extracted columns under the canonical names
ExtractColumns(ncols, rows) ==
  LET rel   == relevant_columns(ncols)
      names == column_names(Len(rel))
      pos   == [c \in Range(names) |-> rel[CHOOSE i \in 1..Len(names) : names[i] = c]]
  IN [cols |-> names,
      rows |-> [j \in 1..Len(rows) |-> [c \in Range(names) |-> rows[j][pos[c] - 1]]]]

\* Series.replace(values, '') on a text
ReplaceWithEmpty(t, values) == IF t \in values THEN <<>> ELSE t

\* one cell of ModernTMSProcessor._clean_data_types_enhanced
CleanCellEnhanced(col, c) ==
  IF col \in Range(numeric_columns) THEN ToNumeric(c)
  ELSE IF col = "PS" THEN FillNa0(ToNumeric(c))
  ELSE IF col = "Ship Date" THEN FormatShipDate(c)
  ELSE IF col \in {"Least Cost Carrier", "Least Cost Service Type"}
    THEN Str(ReplaceWithEmpty(Strip(AsStr(c)),
                              {<<"0">>, <<"0",".","0">>, NanText, NoneText}))
  ELSE IF col \in Range(string_columns)
    THEN Str(ReplaceWithEmpty(Strip(AsStr(c)), {NanText}))
  ELSE c

\* ModernTMSProcessor._clean_data_types_enhanced
clean_data_types_enhanced(df) ==
  [df EXCEPT !.rows =
     [j \in 1..Len(df.rows) |->
        [c \in DOMAIN df.rows[j] |-> CleanCellEnhanced(c, df.rows[j][c])]]]

min_non_empty_values == 5

\* dropna(subset=['Load No.']), then the blank / 'nan' Load No. filter
FilterLoadNo(df) ==
  IF HasCol(df, "Load No.")
    THEN [df EXCEPT !.rows =
            SelectSeq(df.rows,
                      LAMBDA r : /\ ~IsNaN(r["Load No."])
                                 /\ Strip(AsStr(r["Load No."])) \notin {<<>>, NanText})]
    ELSE df

\* data_df.dropna(thresh=min_values)
DropSparse(df, thresh) ==
  [df EXCEPT !.rows = SelectSeq(df.rows, LAMBDA r : NonNullCount(r) >= thresh)]

(***************************************************************************)
(* Rule engine of ModernTMSProcessor                                       *)
(***************************************************************************)
\* mask.sum(): the number of rows a boolean mask selects
MaskCount(mask) == Cardinality({j \in DOMAIN mask : mask[j]})

\* df.loc[mask, col] = value
SetWhere(df, mask, col, value) ==
  [df EXCEPT !.rows =
     [j \in 1..Len(df.rows) |->
        IF mask[j] THEN [df.rows[j] EXCEPT ![col] = value] ELSE df.rows[j]]]

\* CopyRow with only the carrier pair copied
CopyRowCarrierOnly(df, r) ==
  [c \in DOMAIN r |->
     IF c = "Least Cost Carrier" /\ HasCol(df, "Selected Carrier")
       THEN r["Selected Carrier"] ELSE r[c]]

\* CopyRow with the pairs swapped: the selected columns take the least-cost values
CopyRowReversed(df, r) ==
  [c \in DOMAIN r |->
     IF \E i \in 1..Len(column_pairs) :
          /\ column_pairs[i][1] = c
          /\ HasCol(df, column_pairs[i][2])
       THEN r[column_pairs[CHOOSE i \in 1..Len(column_pairs) : column_pairs[i][1] = c][2]]
       ELSE r[c]]

\* one row of _copy_selected_to_least_cost: each least-cost column of a pair
\* whose two columns exist takes the row's selected value
CopyRow(df, r) ==
  [c \in DOMAIN r |->
     IF \E i \in 1..Len(column_pairs) :
          /\ column_pairs[i][2] = c
          /\ HasCol(df, column_pairs[i][1])
       THEN r[column_pairs[CHOOSE i \in 1..Len(column_pairs) : column_pairs[i][2] = c][1]]
       ELSE r[c]]

\* ModernTMSProcessor._copy_selected_to_least_cost
copy_selected_to_least_cost(df, mask) ==
  [df EXCEPT !.rows =
     [j \in 1..Len(df.rows) |->
        IF mask[j] THEN CopyRow(df, df.rows[j]) ELSE df.rows[j]]]

\* _copy_selected_to_least_cost followed by df.loc[mask, 'Potential Savings'] = 0
CopyAndZero(df, mask) ==
  Bind(copy_selected_to_least_cost(df, mask), LAMBDA copied :
    IF HasCol(df, "Potential Savings")
      THEN SetWhere(copied, mask, "Potential Savings", Num(0))
      ELSE copied)

\* Rule 1 mask
same_carrier_mask(df) ==
  [j \in 1..Len(df.rows) |->
     LET sel == df.rows[j]["Selected Carrier"]
         lc  == df.rows[j]["Least Cost Carrier"]
     IN /\ AsStr(sel) = AsStr(lc)
        /\ ~IsNaN(sel)
        /\ ~IsNaN(lc)
        /\ AsStr(sel) # <<>>
        /\ AsStr(lc) # <<>>
        /\ AsStr(sel) # NanText
        /\ AsStr(lc) # NanText]

\* Rule1 writing the literal 0 instead of the configured value
Rule1Zero(df, default_savings) ==
  IF HasCol(df, "Selected Carrier") /\ HasCol(df, "Least Cost Carrier")
    THEN Bind(same_carrier_mask(df), LAMBDA mask :
           IF HasCol(df, "Potential Savings") /\ MaskCount(mask) > 0
             THEN SetWhere(df, mask, "Potential Savings", Num(0))
             ELSE df)
    ELSE df

\* Rule 1: same carriers get the configured savings value
Rule1(df, default_savings) ==
  IF HasCol(df, "Selected Carrier") /\ HasCol(df, "Least Cost Carrier")
    THEN Bind(same_carrier_mask(df), LAMBDA mask :
           IF HasCol(df, "Potential Savings") /\ MaskCount(mask) > 0
             THEN SetWhere(df, mask, "Potential Savings", Num(default_savings))
             ELSE df)
    ELSE df

\* Rule 2 mask
empty_least_cost_mask(df) ==
  [j \in 1..Len(df.rows) |->
     LET lc == df.rows[j]["Least Cost Carrier"]
     IN IsNaN(lc) \/ AsStr(lc) = <<>> \/ AsStr(lc) = NanText]

\* Rule2 without the write of 0 to Potential Savings
Rule2NoZero(df) ==
  IF HasCol(df, "Least Cost Carrier")
    THEN Bind(empty_least_cost_mask(df), LAMBDA mask :
           IF MaskCount(mask) > 0 THEN copy_selected_to_least_cost(df, mask) ELSE df)
    ELSE df

\* Rule 2: empty least cost copies the selected data, savings 0
Rule2(df) ==
  IF HasCol(df, "Least Cost Carrier")
    THEN Bind(empty_least_cost_mask(df), LAMBDA mask :
           IF MaskCount(mask) > 0 THEN CopyAndZero(df, mask) ELSE df)
    ELSE df

\* a mask that selects no row
NoNegativeSavingsMask(df) == [j \in 1..Len(df.rows) |-> FALSE]

\* Rule 3 mask: pd.to_numeric(...).fillna(0) < 0
negative_savings_mask(df) ==
  [j \in 1..Len(df.rows) |-> FillNa0(ToNumeric(df.rows[j]["Potential Savings"])).n < 0]

\* Rule3 without the copy of the selected data
Rule3NoCopy(df) ==
  IF HasCol(df, "Potential Savings")
    THEN Bind(negative_savings_mask(df), LAMBDA mask :
           IF MaskCount(mask) > 0
             THEN SetWhere(df, mask, "Potential Savings", Num(0))
             ELSE df)
    ELSE df

\* Rule 3: negative savings copies the selected data, savings 0
Rule3(df) ==
  IF HasCol(df, "Potential Savings")
    THEN Bind(negative_savings_mask(df), LAMBDA mask :
           IF MaskCount(mask) > 0
             THEN SetWhere(copy_selected_to_least_cost(df, mask), mask,
                           "Potential Savings", Num(0))
             ELSE df)
    ELSE df

\* IsTLRow looking at the selected carrier only
IsTLRowSelectedOnly(r, tl) ==
  Upper(AsStr(r["Selected Carrier"])) \in {Upper(carrier) : carrier \in tl}

\* one row of the Rule 4 mask: either carrier, upper-cased, is an upper-cased
\* TL carrier
IsTLRow(r, tl) ==
  LET tl_upper == {Upper(carrier) : carrier \in tl}
  IN \/ Upper(AsStr(r["Selected Carrier"])) \in tl_upper
     \/ Upper(AsStr(r["Least Cost Carrier"])) \in tl_upper

\* Rule 4 mask
tl_mask(df, tl) == [j \in 1..Len(df.rows) |-> IsTLRow(df.rows[j], tl)]

\* Rule 4: TL carriers copy the selected data, savings 0
Rule4(df, tl) ==
  IF HasCol(df, "Selected Carrier") /\ HasCol(df, "Least Cost Carrier")
    THEN Bind(tl_mask(df, tl), LAMBDA mask :
           IF MaskCount(mask) > 0 THEN CopyAndZero(df, mask) ELSE df)
    ELSE df

\* IsDdiMatch without the '&' / '%' variations
IsDdiMatchExact(r) ==
  LET selected   == Strip(AsStr(r["Selected Carrier"]))
      least_cost == Strip(AsStr(r["Least Cost Carrier"]))
      skip       == {<<>>, NanText, NoneText}
  IN /\ selected \notin skip
     /\ least_cost \notin skip
     /\ HasSlash(selected)
     /\ Upper(Strip(AfterLastSlash(selected))) = Upper(least_cost)

\* Rule 5 loop body: the row is appended to ddi_matches
IsDdiMatch(r) ==
  LET selected   == Strip(AsStr(r["Selected Carrier"]))
      least_cost == Strip(AsStr(r["Least Cost Carrier"]))
      skip       == {<<>>, NanText, NoneText}
      carrier_after_slash == Strip(AfterLastSlash(selected))
  IN /\ selected \notin skip
     /\ least_cost \notin skip
     /\ HasSlash(selected)
     /\ \/ Upper(carrier_after_slash) = Upper(least_cost)
        \/ ReplaceChar(Upper(carrier_after_slash), "&", "%")
             = ReplaceChar(Upper(least_cost), "&", "%")
        \/ ReplaceChar(Upper(carrier_after_slash), "%", "&")
             = ReplaceChar(Upper(least_cost), "%", "&")

\* ddi_mask = df.index.isin(ddi_matches)
ddi_mask(df) == [j \in 1..Len(df.rows) |-> IsDdiMatch(df.rows[j])]

\* Rule 5: DDI/carrier alias match copies the selected data, savings 0
Rule5(df) ==
  IF HasCol(df, "Selected Carrier") /\ HasCol(df, "Least Cost Carrier")
    THEN Bind(ddi_mask(df), LAMBDA mask :
           IF MaskCount(mask) > 0 THEN CopyAndZero(df, mask) ELSE df)
    ELSE df

\* the leading coercion of a column named 'PS'
CoercePS(df) ==
  IF HasCol(df, "PS")
    THEN [df EXCEPT !.rows =
            [j \in 1..Len(df.rows) |->
               [df.rows[j] EXCEPT !["PS"] = FillNa0(ToNumeric(df.rows[j]["PS"]))]]]
    ELSE df

\* the dataframe after each rule of _apply_business_logic_enhanced:
\* <<input, after R1, after R2, after R3, after R4, after R5>>
RuleStages(df, tl, default_savings) ==
  Bind(CoercePS(df), LAMBDA s0 :
  Bind(Rule1(s0, default_savings), LAMBDA s1 :
  Bind(Rule2(s1), LAMBDA s2 :
  Bind(Rule3(s2), LAMBDA s3 :
  Bind(Rule4(s3, tl), LAMBDA s4 :
  Bind(Rule5(s4), LAMBDA s5 :
    <<s0, s1, s2, s3, s4, s5>>))))))

\* ModernTMSProcessor._apply_business_logic_enhanced
apply_business_logic_enhanced(df, tl, default_savings) ==
  RuleStages(df, tl, default_savings)[6]

\* business_stats with every count taken on the rows given to the engine
BusinessStatsOfInput(st, tl) ==
  LET carriers == HasCol(st[1], "Selected Carrier") /\ HasCol(st[1], "Least Cost Carrier")
      counts ==
        << IF carriers THEN MaskCount(same_carrier_mask(st[1])) ELSE 0,
           IF HasCol(st[1], "Least Cost Carrier")
             THEN MaskCount(empty_least_cost_mask(st[1])) ELSE 0,
           IF HasCol(st[1], "Potential Savings")
             THEN MaskCount(negative_savings_mask(st[1])) ELSE 0,
           IF carriers THEN MaskCount(tl_mask(st[1], tl)) ELSE 0,
           IF carriers THEN MaskCount(ddi_mask(st[1])) ELSE 0 >>
  IN [same_carrier_rule_applied     |-> counts[1],
      empty_data_rule_applied       |-> counts[2],
      negative_savings_rule_applied |-> counts[3],
      tl_carrier_rule_applied       |-> counts[4],
      ddi_carrier_rule_applied      |-> counts[5],
      total_rows_affected |-> counts[1] + counts[2] + counts[3] + counts[4] + counts[5]]

\* the audit counts of _apply_business_logic_enhanced: each mask.sum() is
\* taken when its rule runs, st being the rows before and after each rule
business_stats(st, tl) ==
  LET carriers == HasCol(st[1], "Selected Carrier") /\ HasCol(st[1], "Least Cost Carrier")
      counts ==
        << IF carriers THEN MaskCount(same_carrier_mask(st[1])) ELSE 0,
           IF HasCol(st[2], "Least Cost Carrier")
             THEN MaskCount(empty_least_cost_mask(st[2])) ELSE 0,
           IF HasCol(st[3], "Potential Savings")
             THEN MaskCount(negative_savings_mask(st[3])) ELSE 0,
           IF carriers THEN MaskCount(tl_mask(st[4], tl)) ELSE 0,
           IF carriers THEN MaskCount(ddi_mask(st[5])) ELSE 0 >>
  IN [same_carrier_rule_applied     |-> counts[1],
      empty_data_rule_applied       |-> counts[2],
      negative_savings_rule_applied |-> counts[3],
      tl_carrier_rule_applied       |-> counts[4],
      ddi_carrier_rule_applied      |-> counts[5],
      total_rows_affected |-> counts[1] + counts[2] + counts[3] + counts[4] + counts[5]]

(***************************************************************************)
(* Sorting and summary statistics                                          *)
(***************************************************************************)
\* the characters of the model in code-point order
CharOrder ==
  <<" ", "%", "&", "-", ".", "/">> \o DigitChars \o UpperLetters \o LowerLetters

CodeOf == [c \in {CharOrder[i] : i \in 1..Len(CharOrder)} |->
             CHOOSE i \in 1..Len(CharOrder) : CharOrder[i] = c]

CharCode(c) == CodeOf[c]

\* a < b for Python str
RECURSIVE TextLess(_, _)
TextLess(a, b) ==
  IF b = <<>> THEN FALSE
  ELSE IF a = <<>> THEN TRUE
  ELSE IF a[1] = b[1] THEN TextLess(Tail(a), Tail(b))
  ELSE CharCode(a[1]) < CharCode(b[1])

\* key order of sort_values(..., na_position='last'): x strictly before y
KeyBefore(x, y) ==
  IF IsNaN(x) THEN FALSE
  ELSE IF IsNaN(y) THEN TRUE
  ELSE TextLess(AsStr(x), AsStr(y))

\* the orders in which n rows can be laid out: position i takes row p[i]
Orderings(n) ==
  {p \in [1..n -> 1..n] : \A i, j \in 1..n : p[i] = p[j] => i = j}

\* p is an order Series.argsort can return for the keys: kind defaults to
\* 'quicksort', which is not a stable sort, so rows with equal non-null keys
\* come out in any order; the null keys are appended in their original order
IsSortOutcome(keys, p) ==
  \A i, j \in 1..Len(keys) :
     i < j => /\ ~KeyBefore(keys[p[j]], keys[p[i]])
              /\ (IsNaN(keys[p[i]]) /\ IsNaN(keys[p[j]])) => p[i] < p[j]

\* df.sort_values('Destination City', na_position='last') when the column
\* exists: the set of dataframes it can return
sort_by_destination(df) ==
  IF HasCol(df, "Destination City")
    THEN LET keys == [j \in 1..Len(df.rows) |-> df.rows[j]["Destination City"]]
         IN { [df EXCEPT !.rows = [i \in 1..Len(df.rows) |-> df.rows[p[i]]]] :
                p \in {q \in Orderings(Len(df.rows)) : IsSortOutcome(keys, q)} }
    ELSE {df}

\* pd.to_numeric(df[col], errors='coerce').fillna(0).sum()
RECURSIVE SumColumn(_, _)
SumColumn(rows, col) ==
  IF rows = <<>> THEN 0
  ELSE FillNa0(ToNumeric(Head(rows)[col])).n + SumColumn(Tail(rows), col)

\* a quotient a / b kept as the pair of its operands
Ratio(a, b) == [num |-> a, den |-> b]

ZeroRatio == Ratio(0, 1)

\* _calculate_summary_stats with the savings total taken from the cost totals
SummaryStatsFromCosts(df) ==
  [total_loads |-> Len(df.rows),
   total_selected_cost |-> SumColumn(df.rows, "Selected Total Cost"),
   total_least_cost |-> SumColumn(df.rows, "Least Cost Total Cost"),
   total_potential_savings |->
     SumColumn(df.rows, "Selected Total Cost") - SumColumn(df.rows, "Least Cost Total Cost"),
   average_savings_per_load |-> ZeroRatio,
   percentage_savings |-> ZeroRatio,
   loads_with_savings |-> 0,
   total_savings_opportunity |-> 0]

\* ModernTMSProcessor._calculate_summary_stats
calculate_summary_stats(df) ==
  IF df.rows = <<>>
    THEN [total_loads |-> 0, total_selected_cost |-> 0, total_least_cost |-> 0,
          total_potential_savings |-> 0, average_savings_per_load |-> ZeroRatio,
          percentage_savings |-> ZeroRatio, loads_with_savings |-> 0,
          total_savings_opportunity |-> 0]
    ELSE
      LET total_loads == Len(df.rows)
          total_selected_cost == SumColumn(df.rows, "Selected Total Cost")
          total_least_cost == SumColumn(df.rows, "Least Cost Total Cost")
          total_potential_savings == SumColumn(df.rows, "Potential Savings")
          savings_rows ==
            SelectSeq(df.rows,
                      LAMBDA r : FillNa0(ToNumeric(r["Potential Savings"])).n > 0)
      IN [total_loads |-> total_loads,
          total_selected_cost |-> total_selected_cost,
          total_least_cost |-> total_least_cost,
          total_potential_savings |-> total_potential_savings,
          average_savings_per_load |->
            IF total_loads > 0 THEN Ratio(total_potential_savings, total_loads)
            ELSE ZeroRatio,
          percentage_savings |->
            IF total_selected_cost > 0
              THEN Ratio(total_potential_savings * 100, total_selected_cost)
              ELSE ZeroRatio,
          loads_with_savings |-> Len(savings_rows),
          total_savings_opportunity |-> SumColumn(savings_rows, "Potential Savings")]

\* the columns _calculate_summary_stats indexes; a missing one is a KeyError
SummaryStatsRaises(df) ==
  /\ df.rows # <<>>
  /\ \E c \in {"Selected Total Cost", "Least Cost Total Cost", "Potential Savings"} :
        ~HasCol(df, c)

(***************************************************************************)
(* Inputs: raw rows and grids                                              *)
(***************************************************************************)
T_Abc      == <<"A","b","c">>
T_abc      == <<"a","b","c">>
T_Xyz      == <<"X","y","z">>
T_DdiRL    == <<"D","D","I","/","R","&","L">>
T_rl       == <<"r","%","l">>
T_Landstar == <<"L","a","n","d","s","t","a","r"," ","R","a","n","g","e","r"," ","I","n","c">>

\* the default TL carriers of the processors
DefaultTLCarriers ==
  { <<"L","A","N","D","S","T","A","R"," ","R","A","N","G","E","R"," ","I","N","C">>,
    <<"S","M","A","R","T","W","A","Y"," ","T","R","A","N","S","P","O","R","T","A","T","I","O","N"," ","I","N","C">>,
    <<"S","M","A","R","T","W","A","Y"," ","C","O","R","P","O","R","A","T","I","O","N"," ","I","N","C">> }

\* carriers a caller may add with TL_CARRIERS.add(...)
CustomCarriers == { T_abc }

\* values configured for business_rules.same_carrier_savings
SavingsValues == { 0 - 5, 0, 50 }

SelectedCarrierCells == { Str(T_Abc), Str(T_Landstar), Str(T_DdiRL), NaN }

LeastCostCarrierCells == { Str(T_Abc), Str(T_rl), NaN, Num(0), Str(NoneText) }

PotentialSavingsCells == { Num(0 - 75), Num(150), NaN }

\* the five other least-cost cells that go with a least-cost carrier cell
LeastCostDetail(lc) ==
  IF lc = Str(T_Abc)
    THEN <<Str(<<"S","T","D">>), Num(3), Num(300), Num(75), Num(375)>>
  ELSE IF lc = Str(T_rl)
    THEN <<Str(<<"E","C","O">>), Num(4), Num(180), Num(20), Num(200)>>
  ELSE <<lc, Num(0), Num(0), Num(0), Num(0)>>

\* a sheet row of 21 cells (sheet columns 2..22) in canonical column order
RawRow(load, dest, sel, lc, ps) ==
  << load, Date(24, 1, 5),
     Str(<<"T","r","o","y">>), Str(<<"N","Y">>), Num(12180),
     dest, Str(<<"P","A">>), Num(16501),
     sel, Str(<<"L","T","L">>), Num(2), Num(250), Num(50), Num(300),
     lc >> \o LeastCostDetail(lc) \o << ps >>

T_Erie == <<"E","r","i","e">>
T_Avon == <<"A","v","o","n">>

\* the rows under study: every combination of carrier cells and savings cell
SubjectRows ==
  { RawRow(Str(<<"A","1">>), Str(T_Erie), sel, lc, ps) :
      sel \in SelectedCarrierCells, lc \in LeastCostCarrierCells,
      ps \in PotentialSavingsCells }

\* rows that may surround the row under study
ContextRows ==
  { RawRow(Str(<<"A","7">>), Str(T_Avon), Str(T_Xyz), Str(T_Abc), Num(40)),
    RawRow(Str(<<"A","8">>), Str(T_Erie), Str(T_Abc), NaN, NaN),
    RawRow(NaN, NaN, Str(T_Abc), Str(T_rl), Num(999)),
    RawRow(Str(<<"A","9">>), NaN, Str(T_Xyz), Str(T_Abc), Num(40)) }

\* at most this many context rows surround the row under study
MaxContextRows == 1

RECURSIVE SeqsUpTo(_, _)
SeqsUpTo(S, n) ==
  IF n = 0 THEN { <<>> }
  ELSE LET shorter == SeqsUpTo(S, n - 1)
       IN shorter \cup { Append(q, x) : q \in shorter, x \in S }

\* sheets without a data row: no row at all, or only rows lacking a Load No.
EmptySheets == SeqsUpTo({r \in ContextRows : IsNaN(r[1])}, MaxContextRows)

RowSequences ==
  { q \in { pre \o <<r>> \o post :
              r \in SubjectRows,
              pre \in SeqsUpTo(ContextRows, MaxContextRows),
              post \in SeqsUpTo(ContextRows, MaxContextRows) } :
      Len(q) <= MaxContextRows + 1 }
  \cup EmptySheets

\* sheet widths: 23 columns hold all 21 canonical columns, 22 lack the last
SheetWidths == { 22, 23 }

\* the rows of a sheet of w columns: a sheet lacking its last column is studied
\* one row at a time
SheetRows(w) ==
  IF w = 23 THEN RowSequences ELSE { q \in RowSequences : Len(q) <= 1 }

Grids ==
  UNION { { [ncols   |-> w,
             headers |-> SubSeq(base_column_names, 1, w - 2),
             rows    |-> [j \in 1..Len(rs) |-> SubSeq(rs[j], 1, w - 2)]] :
              rs \in SheetRows(w) } :
          w \in SheetWidths }
  \cup
  \* sheets whose first header is not the label 'Load No.'
  { [ncols   |-> 23,
     headers |-> [base_column_names EXCEPT ![1] = "Load ID"],
     rows    |-> rs] :
      rs \in SeqsUpTo(ContextRows, MaxContextRows) }

(***************************************************************************)
(* State                                                                   *)
(***************************************************************************)
VARIABLES
  engine,                \* the processor class that was constructed
  grid,                  \* the sheet being processed
  same_carrier_savings,  \* Config: business_rules.same_carrier_savings
  TL_CARRIERS,           \* ModernTMSProcessor.TL_CARRIERS
  outcome,               \* "idle", "ok" or the exception clean_and_process_data raised
  title_info,            \* ModernTMSProcessor.title_info
  stages,                \* the dataframe before the rules and after each rule
  processed_data,        \* ModernTMSProcessor.processed_data
  summary_stats,         \* ModernTMSProcessor.summary_stats
  reapplied,             \* the rule engine applied to its own output
  input_files,           \* BasicTMSGUI.input_files
  processing,            \* BasicTMSGUI.processing
  process_btn,           \* state of BasicTMSGUI.process_btn
  browse_btn,            \* state of BasicTMSGUI.browse_btn
  running,               \* number of batch worker threads that are alive
  worker_pc,             \* position of the batch worker in _process_files_thread
  batch,                 \* the list the worker iterates over
  file_no,               \* index of the file the worker is at
  attempted,             \* indexes of the files handed to process_file
  processed_files,       \* the worker's processed_files, as indexes into batch
  total_savings,         \* the worker's running total
  caught,                \* the exception bound to e in the except block
  after_queue,           \* callbacks scheduled with root.after(0, ...)
  shown,                 \* what the user has been shown for the current batch
  last_request,          \* what became of the last click on the process button
  df_raw,                \* the raw sheet given to _detect_data_structure
  detected,              \* the (header_row, data_start_row) it returned
  layout                 \* the (header_row, data_start_row) the pipeline sliced at

proc_vars ==
  << engine, grid, same_carrier_savings, TL_CARRIERS, outcome, title_info, stages,
     processed_data, summary_stats, reapplied >>

gui_vars ==
  << input_files, processing, process_btn, browse_btn, running, worker_pc, batch,
     file_no, attempted, processed_files, total_savings, caught, after_queue, shown,
     last_request >>

detect_vars == << df_raw, detected, layout >>

vars == << proc_vars, gui_vars, detect_vars >>

None == [none |-> TRUE]

\* the title cells of the sheet (rows 3 and 5, column 1)
SheetTitle == [company_name |-> <<"A","c","m","e">>, date_range |-> <<"Q","1">>]

\* the name e of the worker's except clause outside the except block
Unbound == "unbound"

\* BasicTMSGUI.__init__: no file selected, nothing running
GuiConstructed ==
  /\ input_files = <<>>
  /\ processing = FALSE
  /\ process_btn = "normal"
  /\ browse_btn = "normal"
  /\ running = 0
  /\ worker_pc = "idle"
  /\ batch = <<>>
  /\ file_no = 0
  /\ attempted = {}
  /\ processed_files = <<>>
  /\ total_savings = 0
  /\ caught = Unbound
  /\ after_queue = <<>>
  /\ shown = <<>>
  /\ last_request = "none"

\* no sheet has been given to _detect_data_structure
DetectIdle ==
  /\ df_raw = <<>>
  /\ detected = None
  /\ layout = None

Init ==
  /\ grid \in Grids
  /\ engine \in {"ModernTMSProcessor", "TMSProcessor", "BasicTMSProcessor"}
  /\ same_carrier_savings \in SavingsValues
  \* TMSProcessor and BasicTMSProcessor have no Config: their Rule 1 writes
  \* the literal 0
  /\ engine # "ModernTMSProcessor" => same_carrier_savings = 0
  /\ TL_CARRIERS = DefaultTLCarriers
  /\ outcome = "idle"
  /\ title_info = [x \in {} |-> <<>>]
  /\ stages = <<>>
  /\ processed_data = None
  /\ summary_stats = [x \in {} |-> 0]
  /\ reapplied = None
  /\ GuiConstructed
  /\ DetectIdle

(***************************************************************************)
(* ModernTMSProcessor                                                      *)
(***************************************************************************)
\* the dataframe handed to the rule engine by clean_and_process_data
NormalizedFrame(g) ==
  Bind(DropAllNa(g.rows), LAMBDA present :
  Bind(remove_duplicate_headers(present), LAMBDA data_rows :
  Bind(ExtractColumns(g.ncols, data_rows), LAMBDA named :
  Bind(clean_data_types_enhanced(named), LAMBDA cleaned :
  Bind(FilterLoadNo(cleaned), LAMBDA with_load :
    DropSparse(with_load, min_non_empty_values))))))

\* processor.TL_CARRIERS.add(carrier)
AddTLCarrier ==
  /\ outcome = "idle"
  /\ \E carrier \in CustomCarriers :
       /\ carrier \notin TL_CARRIERS
       /\ TL_CARRIERS' = TL_CARRIERS \cup {carrier}
  /\ UNCHANGED << engine, grid, same_carrier_savings, outcome, title_info, stages,
                  processed_data, summary_stats, reapplied, gui_vars, detect_vars >>

\* ModernTMSProcessor.clean_and_process_data on sheet g: what the call does
\* to the processor
clean_and_process_data(g) ==
  /\ title_info' = SheetTitle
  /\ IF ColumnSliceRaises(g.ncols)
       THEN /\ outcome' = "RuntimeError"
            /\ UNCHANGED << stages, processed_data, summary_stats >>
       ELSE \E normalized \in {NormalizedFrame(g)} :
            \E st \in {RuleStages(normalized, TL_CARRIERS, same_carrier_savings)} :
            \E sorted \in sort_by_destination(st[6]) :
              IF SummaryStatsRaises(sorted)
                THEN /\ outcome' = "RuntimeError"
                     /\ UNCHANGED << stages, processed_data, summary_stats >>
                ELSE /\ outcome' = "ok"
                     /\ stages' = st
                     /\ summary_stats' = calculate_summary_stats(sorted)
                     /\ processed_data' = sorted

\* ModernTMSProcessor.clean_and_process_data on the sheet
CleanAndProcessData ==
  /\ engine = "ModernTMSProcessor"
  /\ outcome = "idle"
  /\ clean_and_process_data(grid)
  /\ UNCHANGED << engine, grid, same_carrier_savings, TL_CARRIERS, reapplied, gui_vars, detect_vars >>

\* _apply_business_logic_enhanced applied to the rows it has corrected
ApplyBusinessLogicAgain ==
  /\ engine = "ModernTMSProcessor"
  /\ outcome = "ok"
  /\ reapplied = None
  /\ reapplied' = apply_business_logic_enhanced(stages[6], TL_CARRIERS,
                                                same_carrier_savings)
  /\ UNCHANGED << engine, grid, same_carrier_savings, TL_CARRIERS, outcome, title_info,
                  stages, processed_data, summary_stats, gui_vars, detect_vars >>

(***************************************************************************)
(* TMSProcessor (core_logic.py)                                            *)
(***************************************************************************)
\* data_df.columns = headers, then the PS -> Potential Savings rename
CoreFrame(g) ==
  LET names == [i \in 1..Len(g.headers) |->
                  IF g.headers[i] = "PS" THEN "Potential Savings" ELSE g.headers[i]]
      pos   == [c \in Range(names) |-> CHOOSE i \in 1..Len(names) : names[i] = c]
  IN [cols |-> names,
      rows |-> [j \in 1..Len(g.rows) |-> [c \in Range(names) |-> g.rows[j][pos[c]]]]]

\* one cell of TMSProcessor._clean_data
CleanCellCore(col, c) ==
  IF col \in Range(numeric_columns) THEN FillNa0(ToNumeric(c))
  ELSE IF col \in Range(core_string_columns)
    THEN Str(ReplaceWithEmpty(Strip(AsStr(c)), {NanText}))
  ELSE c

\* TMSProcessor._clean_data
clean_data(df) ==
  Bind(IF HasCol(df, "Load No.")
         THEN [df EXCEPT !.rows =
                 SelectSeq(df.rows,
                           LAMBDA r : /\ ~IsNaN(r["Load No."])
                                      /\ Strip(AsStr(r["Load No."])) # <<>>
                                      /\ AsStr(r["Load No."]) # NanText)]
         ELSE df,
       LAMBDA kept :
  Bind([kept EXCEPT !.rows =
          [j \in 1..Len(kept.rows) |->
             [c \in DOMAIN kept.rows[j] |-> CleanCellCore(c, kept.rows[j][c])]]],
       LAMBDA cleaned : DropSparse(cleaned, 5)))

\* df[col] = values, the column being appended when it is new
AssignColumn(df, col, values) ==
  [cols |-> IF HasCol(df, col) THEN df.cols ELSE Append(df.cols, col),
   rows |-> [j \in 1..Len(df.rows) |->
               [c \in DOMAIN df.rows[j] \cup {col} |->
                  IF c = col THEN values[j] ELSE df.rows[j][c]]]]

\* the existing column is kept: it exists and ps_numeric.notna().sum() > 0
KeepsExistingSavings(df) ==
  /\ HasCol(df, "Potential Savings")
  /\ \E j \in 1..Len(df.rows) : ~IsNaN(ToNumeric(df.rows[j]["Potential Savings"]))

\* selected_cost - least_cost, 0 where least_cost == 0
DerivedSavings(r) ==
  LET selected_cost == FillNa0(ToNumeric(r["Selected Total Cost"])).n
      least_cost    == FillNa0(ToNumeric(r["Least Cost Total Cost"])).n
  IN IF least_cost = 0 THEN Num(0) ELSE Num(selected_cost - least_cost)

\* TMSProcessor._calculate_potential_savings
calculate_potential_savings(df) ==
  IF KeepsExistingSavings(df) THEN df
  ELSE IF HasCol(df, "Selected Total Cost") /\ HasCol(df, "Least Cost Total Cost")
    THEN AssignColumn(df, "Potential Savings",
                      [j \in 1..Len(df.rows) |-> DerivedSavings(df.rows[j])])
    ELSE AssignColumn(df, "Potential Savings", [j \in 1..Len(df.rows) |-> Num(0)])

\* TMSProcessor.load_data
load_data(g) ==
  Bind(CoreFrame(g), LAMBDA data_df :
  Bind(clean_data(data_df), LAMBDA cleaned :
    calculate_potential_savings(cleaned)))

\* mask of TMSProcessor._apply_same_carrier_rule
core_same_carrier_mask(df) ==
  [j \in 1..Len(df.rows) |->
     LET sel == df.rows[j]["Selected Carrier"]
         lc  == df.rows[j]["Least Cost Carrier"]
     IN /\ AsStr(sel) = AsStr(lc)
        /\ ~IsNaN(sel)
        /\ ~IsNaN(lc)
        /\ AsStr(sel) # <<>>
        /\ AsStr(lc) # <<>>]

\* TMSProcessor._apply_same_carrier_rule
apply_same_carrier_rule(df) ==
  IF HasCol(df, "Selected Carrier") /\ HasCol(df, "Least Cost Carrier")
    THEN Bind(core_same_carrier_mask(df), LAMBDA mask :
           IF MaskCount(mask) > 0 /\ HasCol(df, "Potential Savings")
             THEN SetWhere(df, mask, "Potential Savings", Num(0))
             ELSE df)
    ELSE df

\* TMSProcessor._apply_empty_data_rule (the mask of Rule 2, the same copy helper)
apply_empty_data_rule(df) ==
  IF HasCol(df, "Least Cost Carrier")
    THEN Bind(empty_least_cost_mask(df), LAMBDA mask :
           IF MaskCount(mask) > 0 THEN CopyAndZero(df, mask) ELSE df)
    ELSE df

\* TMSProcessor._apply_negative_savings_rule (the mask of Rule 3)
apply_negative_savings_rule(df) ==
  IF HasCol(df, "Potential Savings")
    THEN Bind(negative_savings_mask(df), LAMBDA mask :
           IF MaskCount(mask) > 0
             THEN SetWhere(copy_selected_to_least_cost(df, mask), mask,
                           "Potential Savings", Num(0))
             ELSE df)
    ELSE df

\* TMSProcessor._apply_tl_carriers_rule (the mask of Rule 4)
apply_tl_carriers_rule(df, tl) ==
  IF HasCol(df, "Selected Carrier") /\ HasCol(df, "Least Cost Carrier")
    THEN Bind(tl_mask(df, tl), LAMBDA mask :
           IF MaskCount(mask) > 0 THEN CopyAndZero(df, mask) ELSE df)
    ELSE df

\* the dataframe before and after each rule of TMSProcessor.apply_business_rules
CoreRuleStages(df, tl) ==
  Bind(apply_same_carrier_rule(df), LAMBDA s1 :
  Bind(apply_empty_data_rule(s1), LAMBDA s2 :
  Bind(apply_negative_savings_rule(s2), LAMBDA s3 :
  Bind(apply_tl_carriers_rule(s3, tl), LAMBDA s4 :
    <<df, s1, s2, s3, s4>>))))

\* TMSProcessor.apply_business_rules
apply_business_rules(df, tl) == CoreRuleStages(df, tl)[5]

\* pd.to_numeric(df.get(col, 0), ...).fillna(0) on a missing column is an
\* AttributeError: the scalar 0 has no fillna
CoreSummaryStatsRaises(df) ==
  /\ df.rows # <<>>
  /\ \E c \in {"Selected Total Cost", "Least Cost Total Cost", "Potential Savings"} :
        ~HasCol(df, c)

\* TMSProcessor.calculate_summary_stats
core_calculate_summary_stats(df) ==
  IF df.rows = <<>>
    THEN [total_loads |-> 0, total_potential_savings |-> 0,
          average_savings_per_load |-> ZeroRatio, loads_with_savings |-> 0,
          total_selected_cost |-> 0, total_least_cost |-> 0,
          percentage_savings |-> ZeroRatio]
    ELSE
      LET total_loads == Len(df.rows)
          total_selected_cost == SumColumn(df.rows, "Selected Total Cost")
          total_least_cost == SumColumn(df.rows, "Least Cost Total Cost")
          total_potential_savings == SumColumn(df.rows, "Potential Savings")
      IN [total_loads |-> total_loads,
          total_potential_savings |-> total_potential_savings,
          average_savings_per_load |->
            IF total_loads > 0 THEN Ratio(total_potential_savings, total_loads)
            ELSE ZeroRatio,
          loads_with_savings |->
            Cardinality({j \in 1..Len(df.rows) :
                           FillNa0(ToNumeric(df.rows[j]["Potential Savings"])).n > 0}),
          total_selected_cost |-> total_selected_cost,
          total_least_cost |-> total_least_cost,
          percentage_savings |->
            IF total_selected_cost > 0
              THEN Ratio(total_potential_savings * 100, total_selected_cost)
              ELSE ZeroRatio]

\* TMSProcessor.process_excel_file on sheet g: what the call does to the
\* processor
process_excel_file(g) ==
  /\ title_info' = SheetTitle
  /\ \E loaded \in {load_data(g)} :
     \E st \in {CoreRuleStages(loaded, TL_CARRIERS)} :
       IF CoreSummaryStatsRaises(st[5])
         THEN /\ outcome' = "AttributeError"
              /\ UNCHANGED << stages, processed_data, summary_stats >>
         ELSE /\ outcome' = "ok"
              /\ stages' = st
              /\ summary_stats' = core_calculate_summary_stats(st[5])
              /\ processed_data' \in sort_by_destination(st[5])

\* TMSProcessor.process_excel_file on the sheet
ProcessExcelFile ==
  /\ engine = "TMSProcessor"
  /\ outcome = "idle"
  /\ process_excel_file(grid)
  /\ UNCHANGED << engine, grid, same_carrier_savings, TL_CARRIERS, reapplied, gui_vars, detect_vars >>

\* apply_business_rules applied to the rows it has corrected
ApplyBusinessRulesAgain ==
  /\ engine = "TMSProcessor"
  /\ outcome = "ok"
  /\ reapplied = None
  /\ reapplied' = apply_business_rules(stages[5], TL_CARRIERS)
  /\ UNCHANGED << engine, grid, same_carrier_savings, TL_CARRIERS, outcome, title_info,
                  stages, processed_data, summary_stats, gui_vars, detect_vars >>

(***************************************************************************)
(* BasicTMSProcessor (basic_gui.py)                                        *)
(***************************************************************************)
\* headers, the PS -> Potential Savings mapping, _clean_data and
\* _calculate_potential_savings of BasicTMSProcessor.process_file: the code of
\* TMSProcessor.load_data, repeated
BasicLoadData(g) ==
  Bind(CoreFrame(g), LAMBDA data_df :
  Bind(clean_data(data_df), LAMBDA cleaned :
    calculate_potential_savings(cleaned)))

\* same_carrier_mask of BasicTMSProcessor._apply_business_rules
basic_same_carrier_mask(df) ==
  [j \in 1..Len(df.rows) |->
     LET sel == df.rows[j]["Selected Carrier"]
         lc  == df.rows[j]["Least Cost Carrier"]
     IN /\ AsStr(sel) = AsStr(lc)
        /\ ~IsNaN(sel)
        /\ ~IsNaN(lc)
        /\ AsStr(sel) # <<>>
        /\ AsStr(lc) # <<>>]

\* empty_mask of BasicTMSProcessor._apply_business_rules
basic_empty_mask(df) ==
  [j \in 1..Len(df.rows) |->
     LET lc == df.rows[j]["Least Cost Carrier"]
     IN IsNaN(lc) \/ AsStr(lc) = <<>> \/ AsStr(lc) = NanText]

\* negative_mask: pd.to_numeric(...) < 0, a null comparing False
basic_negative_mask(df) ==
  [j \in 1..Len(df.rows) |->
     LET v == ToNumeric(df.rows[j]["Potential Savings"])
     IN IsNum(v) /\ v.n < 0]

\* tl_mask of BasicTMSProcessor._apply_business_rules
basic_tl_mask(df, tl) ==
  [j \in 1..Len(df.rows) |->
     LET tl_upper == {Upper(c) : c \in tl}
     IN \/ Upper(AsStr(df.rows[j]["Selected Carrier"])) \in tl_upper
        \/ Upper(AsStr(df.rows[j]["Least Cost Carrier"])) \in tl_upper]

\* the loop over column_pairs: df.loc[mask, least_cost_col] = df.loc[mask, selected_col]
basic_copy_pairs(df, mask) ==
  [df EXCEPT !.rows =
     [j \in 1..Len(df.rows) |->
        IF mask[j]
          THEN [c \in DOMAIN df.rows[j] |->
                  IF \E i \in 1..Len(column_pairs) :
                       column_pairs[i][2] = c /\ HasCol(df, column_pairs[i][1])
                    THEN df.rows[j][column_pairs[CHOOSE i \in 1..Len(column_pairs) :
                                                   column_pairs[i][2] = c][1]]
                    ELSE df.rows[j][c]]
          ELSE df.rows[j]]]

\* Rule 1 of BasicTMSProcessor._apply_business_rules
BasicRule1(df) ==
  IF HasCol(df, "Selected Carrier") /\ HasCol(df, "Least Cost Carrier")
    THEN Bind(basic_same_carrier_mask(df), LAMBDA mask :
           IF MaskCount(mask) > 0 /\ HasCol(df, "Potential Savings")
             THEN SetWhere(df, mask, "Potential Savings", Num(0))
             ELSE df)
    ELSE df

\* Rule 2 of BasicTMSProcessor._apply_business_rules
BasicRule2(df) ==
  IF HasCol(df, "Least Cost Carrier")
    THEN Bind(basic_empty_mask(df), LAMBDA mask :
           IF MaskCount(mask) > 0
             THEN Bind(basic_copy_pairs(df, mask), LAMBDA copied :
                    IF HasCol(df, "Potential Savings")
                      THEN SetWhere(copied, mask, "Potential Savings", Num(0))
                      ELSE copied)
             ELSE df)
    ELSE df

\* Rule 3 of BasicTMSProcessor._apply_business_rules
BasicRule3(df) ==
  IF HasCol(df, "Potential Savings")
    THEN Bind(basic_negative_mask(df), LAMBDA mask :
           IF MaskCount(mask) > 0
             THEN SetWhere(basic_copy_pairs(df, mask), mask, "Potential Savings", Num(0))
             ELSE df)
    ELSE df

\* Rule 4 of BasicTMSProcessor._apply_business_rules
BasicRule4(df, tl) ==
  IF HasCol(df, "Selected Carrier") /\ HasCol(df, "Least Cost Carrier")
    THEN Bind(basic_tl_mask(df, tl), LAMBDA mask :
           IF MaskCount(mask) > 0
             THEN Bind(basic_copy_pairs(df, mask), LAMBDA copied :
                    IF HasCol(df, "Potential Savings")
                      THEN SetWhere(copied, mask, "Potential Savings", Num(0))
                      ELSE copied)
             ELSE df)
    ELSE df

\* the dataframe before and after each rule of _apply_business_rules
BasicRuleStages(df, tl) ==
  Bind(BasicRule1(df), LAMBDA s1 :
  Bind(BasicRule2(s1), LAMBDA s2 :
  Bind(BasicRule3(s2), LAMBDA s3 :
  Bind(BasicRule4(s3, tl), LAMBDA s4 :
    <<df, s1, s2, s3, s4>>))))

\* BasicTMSProcessor._apply_business_rules
basic_apply_business_rules(df, tl) == BasicRuleStages(df, tl)[5]

\* Series.max(): null for an empty series
MaxOf(values) ==
  IF values = {} THEN NaN
  ELSE Num(CHOOSE m \in values : \A v \in values : v <= m)

\* df.get(col, 0) of a missing column is the scalar 0, which has no fillna
BasicSummaryStatsRaises(df) ==
  /\ HasCol(df, "Potential Savings")
  /\ \E c \in {"Selected Total Cost", "Least Cost Total Cost"} : ~HasCol(df, c)

\* BasicTMSProcessor._calculate_summary_stats; Series.mean() is the sum over
\* the count, 0/0 (null) for an empty series
basic_calculate_summary_stats(df) ==
  IF HasCol(df, "Potential Savings")
    THEN
      LET total_potential_savings == SumColumn(df.rows, "Potential Savings")
          total_selected_cost == SumColumn(df.rows, "Selected Total Cost")
      IN [total_loads |-> Len(df.rows),
          total_potential_savings |-> total_potential_savings,
          average_savings_per_load |-> Ratio(total_potential_savings, Len(df.rows)),
          loads_with_savings |->
            Cardinality({j \in 1..Len(df.rows) :
                           FillNa0(ToNumeric(df.rows[j]["Potential Savings"])).n > 0}),
          max_single_saving |->
            MaxOf({FillNa0(ToNumeric(df.rows[j]["Potential Savings"])).n :
                     j \in 1..Len(df.rows)}),
          total_selected_cost |-> total_selected_cost,
          total_least_cost |-> SumColumn(df.rows, "Least Cost Total Cost"),
          percentage_savings |->
            IF total_selected_cost > 0
              THEN Ratio(total_potential_savings * 100, total_selected_cost)
              ELSE ZeroRatio]
    ELSE [x \in {} |-> 0]

\* BasicTMSProcessor.process_file on sheet g: what the call does to the
\* processor
process_file(g) ==
  /\ title_info' = SheetTitle
  /\ \E loaded \in {BasicLoadData(g)} :
     \E st \in {BasicRuleStages(loaded, TL_CARRIERS)} :
       IF BasicSummaryStatsRaises(st[5])
         THEN /\ outcome' = "AttributeError"
              /\ summary_stats' = [x \in {} |-> 0]
              /\ UNCHANGED << stages, processed_data >>
         ELSE /\ outcome' = "ok"
              /\ stages' = st
              /\ summary_stats' = basic_calculate_summary_stats(st[5])
              /\ processed_data' \in sort_by_destination(st[5])

\* BasicTMSProcessor.process_file on the sheet
ProcessFile ==
  /\ engine = "BasicTMSProcessor"
  /\ outcome = "idle"
  /\ process_file(grid)
  /\ UNCHANGED << engine, grid, same_carrier_savings, TL_CARRIERS, reapplied, gui_vars, detect_vars >>

Next ==
  \/ AddTLCarrier
  \/ ProcessFile
  \/ CleanAndProcessData
  \/ ApplyBusinessLogicAgain
  \/ ProcessExcelFile
  \/ ApplyBusinessRulesAgain

Spec == Init /\ [][Next]_vars

(***************************************************************************)
(* Batch processing: the GUI workers and the batch example                 *)
(***************************************************************************)
\* a selected file: whether it can be read, whether its output can be
\* written, and its sheet
File(exists, writable, g) == [exists |-> exists, writable |-> writable, grid |-> g]

\* a full-width sheet with the given data rows
Sheet(w, rs) ==
  [ncols   |-> w,
   headers |-> SubSeq(base_column_names, 1, w - 2),
   rows    |-> [j \in 1..Len(rs) |-> SubSeq(rs[j], 1, w - 2)]]

Row_A7 == RawRow(Str(<<"A","7">>), Str(T_Avon), Str(T_Xyz), Str(T_Abc), Num(40))
Row_A9 == RawRow(Str(<<"A","9">>), NaN, Str(T_Xyz), Str(T_Abc), Num(40))

\* the files on disk: two readable sheets with different totals, a path that
\* does not exist, a sheet whose output file is locked
BatchFiles ==
  { File(TRUE, TRUE, Sheet(23, <<Row_A7>>)),
    File(TRUE, TRUE, Sheet(23, <<Row_A7, Row_A9>>)),
    File(FALSE, TRUE, Sheet(23, <<Row_A7>>)),
    File(TRUE, FALSE, Sheet(23, <<Row_A7>>)) }

\* at most this many files are selected for one batch
MaxFiles == 2

Batches == SeqsUpTo(BatchFiles, MaxFiles)

\* the model stops counting live workers here
MaxWorkers == 2

StatsGetDefault(stats, key, default) == default

\* stats.get(key, default) on processor.summary_stats
StatsGet(stats, key, default) ==
  IF key \in DOMAIN stats THEN stats[key] ELSE default

\* the method BasicTMSGUI.log_message exists in basic_gui.py only
HasLogMessage == engine = "BasicTMSProcessor"

\* an entry of the Tk event queue or of what the user is shown
Event(kind, files, total) == [kind |-> kind, files |-> files, total |-> total]

\* root.after(0, callback)
After(queue, callbacks) == queue \o callbacks

\* the state process_files gives the process button
ProcessBtnLeftEnabled == "normal"
ProcessBtnWhileProcessing == "disabled"

\* BasicTMSGUI.select_files with a non-empty choice in the dialog; the model
\* follows one selection, which the user may process more than once
SelectFiles ==
  /\ engine # "TMSProcessor"
  /\ browse_btn = "normal"
  /\ input_files = <<>>
  /\ input_files' \in Batches \ { <<>> }
  /\ UNCHANGED << detect_vars, proc_vars, processing, process_btn, browse_btn, running, worker_pc,
                  batch, file_no, attempted, processed_files, total_savings, caught,
                  after_queue, shown, last_request >>

\* BasicTMSGUI.process_files, with the start of the worker thread
process_files ==
  IF input_files = <<>>
    THEN /\ last_request' = "warned"
         /\ UNCHANGED << processing, process_btn, browse_btn, running, worker_pc,
                         batch, file_no, attempted, processed_files, total_savings,
                         caught, shown >>
    ELSE IF engine = "ModernTMSProcessor" /\ processing
      THEN /\ last_request' = "returned"
           /\ UNCHANGED << processing, process_btn, browse_btn, running, worker_pc,
                           batch, file_no, attempted, processed_files, total_savings,
                           caught, shown >>
      ELSE /\ last_request' = "started"
           /\ processing' = (engine = "ModernTMSProcessor")
           /\ process_btn' = ProcessBtnWhileProcessing
           /\ browse_btn' = IF engine = "ModernTMSProcessor" THEN "disabled"
                            ELSE browse_btn
           /\ running' = running + 1
           /\ worker_pc' = "loop"
           /\ batch' = input_files
           /\ file_no' = 1
           /\ attempted' = {}
           /\ processed_files' = <<>>
           /\ total_savings' = 0
           /\ caught' = Unbound
           /\ shown' = <<>>

\* a click on the process button: Tk runs the command of an enabled button only
ClickProcess ==
  /\ engine # "TMSProcessor"
  /\ running < MaxWorkers
  /\ IF process_btn = "disabled"
       THEN /\ last_request' = "ignored"
            /\ UNCHANGED << processing, process_btn, browse_btn, running, worker_pc,
                            batch, file_no, attempted, processed_files, total_savings,
                            caught, shown >>
       ELSE process_files
  /\ UNCHANGED << detect_vars, proc_vars, input_files, after_queue >>

\* example_4_batch_processing is started on the files of its list
Example4BatchProcessing ==
  /\ engine = "TMSProcessor"
  /\ worker_pc = "idle"
  /\ batch = <<>>
  /\ \E files \in Batches \ { <<>> } :
       /\ input_files' = files
       /\ batch' = files
  /\ running' = running + 1
  /\ worker_pc' = "loop"
  /\ file_no' = 1
  /\ UNCHANGED << detect_vars, proc_vars, processing, process_btn, browse_btn, attempted,
                  processed_files, total_savings, caught, after_queue, shown,
                  last_request >>

\* self.processor.process_file(input_file): read_excel raises for a path that
\* does not exist
ProcessorCall(f) ==
  IF ~f.exists
    THEN /\ outcome' = "FileNotFoundError"
         /\ UNCHANGED << grid, title_info, stages, processed_data, summary_stats >>
    ELSE /\ grid' = f.grid
         /\ CASE engine = "ModernTMSProcessor" -> clean_and_process_data(f.grid)
              [] engine = "TMSProcessor"       -> process_excel_file(f.grid)
              [] OTHER                         -> process_file(f.grid)

\* the loop body up to the end of process_file
WorkerProcessFile ==
  /\ worker_pc = "loop"
  /\ file_no <= Len(batch)
  /\ attempted' = attempted \cup {file_no}
  /\ ProcessorCall(batch[file_no])
  /\ IF outcome' = "ok"
       THEN /\ worker_pc' = "save"
            /\ UNCHANGED << file_no, caught, running >>
       ELSE IF engine = "TMSProcessor"
         \* example 4 catches FileNotFoundError inside the loop and lets
         \* anything else end the script
         THEN IF outcome' = "FileNotFoundError"
                THEN /\ worker_pc' = "loop"
                     /\ file_no' = file_no + 1
                     /\ UNCHANGED << caught, running >>
                ELSE /\ worker_pc' = "idle"
                     /\ running' = running - 1
                     /\ UNCHANGED << file_no, caught >>
         ELSE /\ worker_pc' = "except"
              /\ caught' = outcome'
              /\ UNCHANGED << file_no, running >>
  /\ UNCHANGED << detect_vars, engine, same_carrier_savings, TL_CARRIERS, reapplied, input_files,
                  processing, process_btn, browse_btn, batch, processed_files,
                  total_savings, after_queue, shown, last_request >>

\* the loop body from the save to the end of the iteration
WorkerSaveFile ==
  /\ worker_pc = "save"
  /\ IF batch[file_no].writable
       THEN \E file_savings \in {StatsGet(summary_stats, "total_potential_savings", 0)} :
            /\ processed_files' = Append(processed_files, file_no)
            /\ total_savings' = total_savings + file_savings
            /\ after_queue' =
                 IF engine = "ModernTMSProcessor"
                   THEN After(after_queue, << Event("add_result_entry", file_no, file_savings) >>)
                   ELSE after_queue
            /\ file_no' = file_no + 1
            /\ worker_pc' = "loop"
            /\ UNCHANGED << caught, running >>
       ELSE IF engine = "TMSProcessor"
         THEN /\ worker_pc' = "idle"
              /\ running' = running - 1
              /\ UNCHANGED << processed_files, total_savings, after_queue, file_no,
                              caught >>
         ELSE /\ worker_pc' = "except"
              /\ caught' = "PermissionError"
              /\ UNCHANGED << processed_files, total_savings, after_queue, file_no,
                              running >>
  /\ UNCHANGED << detect_vars, proc_vars, input_files, processing, process_btn, browse_btn, batch,
                  attempted, shown, last_request >>

\* after the last file: the completion summary
WorkerFinishLoop ==
  /\ worker_pc = "loop"
  /\ file_no > Len(batch)
  /\ IF engine = "TMSProcessor"
       THEN /\ shown' = Append(shown, Event("summary", Len(processed_files), total_savings))
            /\ worker_pc' = "idle"
            /\ running' = running - 1
            /\ UNCHANGED after_queue
       ELSE /\ after_queue' =
                 After(after_queue,
                       << Event("_show_completion_summary", Len(processed_files),
                                total_savings) >>
                       \o IF engine = "ModernTMSProcessor"
                            THEN << Event("refresh_recent_uploads", 0, 0) >>
                            ELSE << >>)
            /\ worker_pc' = "finally"
            /\ UNCHANGED << shown, running >>
  /\ UNCHANGED << detect_vars, proc_vars, input_files, processing, process_btn, browse_btn, batch,
                  file_no, attempted, processed_files, total_savings, caught,
                  last_request >>

\* the except block: basic_gui.py logs from the worker and schedules the
\* dialog, basic_processor.py schedules both
WorkerExcept ==
  /\ worker_pc = "except"
  /\ IF engine = "BasicTMSProcessor"
       THEN /\ shown' = Append(shown, Event("error_log", 0, 0))
            /\ after_queue' = After(after_queue, << Event("showerror", 0, 0) >>)
       ELSE /\ after_queue' = After(after_queue, << Event("log_message", 0, 0),
                                                    Event("showerror", 0, 0) >>)
            /\ UNCHANGED shown
  /\ worker_pc' = "except_end"
  /\ UNCHANGED << detect_vars, proc_vars, input_files, processing, process_btn, browse_btn, running,
                  batch, file_no, attempted, processed_files, total_savings, caught,
                  last_request >>

\* the end of the except block unbinds e
WorkerLeaveExcept ==
  /\ worker_pc = "except_end"
  /\ caught' = Unbound
  /\ worker_pc' = "finally"
  /\ UNCHANGED << detect_vars, proc_vars, input_files, processing, process_btn, browse_btn, running,
                  batch, file_no, attempted, processed_files, total_savings,
                  after_queue, shown, last_request >>

\* the finally block without its root.after call
WorkerFinallyNoReenable ==
  /\ worker_pc = "finally"
  /\ worker_pc' = "idle"
  /\ running' = running - 1
  /\ UNCHANGED << detect_vars, proc_vars, input_files, processing, process_btn, browse_btn, batch,
                  file_no, attempted, processed_files, total_savings, caught, shown,
                  last_request, after_queue >>

\* the finally block, after which the thread ends
WorkerFinally ==
  /\ worker_pc = "finally"
  /\ after_queue' =
       After(after_queue,
             << IF engine = "ModernTMSProcessor"
                  THEN Event("_set_processing_state", 0, 0)
                  ELSE Event("_enable_process_button", 0, 0) >>)
  /\ worker_pc' = "idle"
  /\ running' = running - 1
  /\ UNCHANGED << detect_vars, proc_vars, input_files, processing, process_btn, browse_btn, batch,
                  file_no, attempted, processed_files, total_savings, caught, shown,
                  last_request >>

\* the Tk main loop runs the oldest scheduled callback; an exception raised
\* by a callback is not shown in the window
RunCallback ==
  /\ after_queue # <<>>
  /\ after_queue' = Tail(after_queue)
  /\ \E callback \in {Head(after_queue)} :
       CASE callback.kind = "_show_completion_summary" ->
              /\ shown' = Append(shown, Event("summary", callback.files, callback.total))
              /\ UNCHANGED << processing, process_btn, browse_btn >>
         [] callback.kind = "add_result_entry" ->
              /\ shown' = Append(shown, Event("result", callback.files, callback.total))
              /\ UNCHANGED << processing, process_btn, browse_btn >>
         [] callback.kind = "log_message" ->
              \* AttributeError where the method does not exist
              /\ shown' = IF HasLogMessage THEN Append(shown, Event("error_log", 0, 0))
                          ELSE shown
              /\ UNCHANGED << processing, process_btn, browse_btn >>
         [] callback.kind = "showerror" ->
              \* str(e) is a NameError once the except block has ended
              /\ shown' = IF caught # Unbound THEN Append(shown, Event("error_dialog", 0, 0))
                          ELSE shown
              /\ UNCHANGED << processing, process_btn, browse_btn >>
         [] callback.kind = "_set_processing_state" ->
              /\ process_btn' = "normal"
              /\ browse_btn' = "normal"
              /\ processing' = FALSE
              /\ UNCHANGED shown
         [] callback.kind = "_enable_process_button" ->
              /\ process_btn' = "normal"
              /\ UNCHANGED << processing, browse_btn, shown >>
         [] OTHER ->
              UNCHANGED << processing, process_btn, browse_btn, shown >>
  /\ UNCHANGED << detect_vars, proc_vars, input_files, running, worker_pc, batch, file_no, attempted,
                  processed_files, total_savings, caught, last_request >>

\* a window or the example script, with the processor it constructs
InitBatch ==
  /\ engine \in {"ModernTMSProcessor", "TMSProcessor", "BasicTMSProcessor"}
  /\ grid = Sheet(23, <<>>)
  /\ same_carrier_savings = 0
  /\ TL_CARRIERS = DefaultTLCarriers
  /\ outcome = "idle"
  /\ title_info = [x \in {} |-> <<>>]
  /\ stages = <<>>
  /\ processed_data = None
  /\ summary_stats = [x \in {} |-> 0]
  /\ reapplied = None
  /\ GuiConstructed
  /\ DetectIdle

NextBatch ==
  \/ SelectFiles
  \/ ClickProcess
  \/ Example4BatchProcessing
  \/ WorkerProcessFile
  \/ WorkerSaveFile
  \/ WorkerFinishLoop
  \/ WorkerExcept
  \/ WorkerLeaveExcept
  \/ WorkerFinally
  \/ RunCallback

SpecBatch == InitBatch /\ [][NextBatch]_vars

\* a step of the worker thread
WorkerStep ==
  \/ WorkerProcessFile
  \/ WorkerSaveFile
  \/ WorkerFinishLoop
  \/ WorkerExcept
  \/ WorkerLeaveExcept
  \/ WorkerFinally

\* the daemon thread started by process_files keeps being scheduled until it
\* ends, and root.mainloop() keeps running the callbacks given to root.after
SpecBatchFair ==
  /\ InitBatch
  /\ [][NextBatch]_vars
  /\ WF_vars(WorkerStep)
  /\ WF_vars(RunCallback)

(***************************************************************************)
(* Header detection                                                        *)
(***************************************************************************)
header_indicators ==
  << <<"L","o","a","d"," ","N","o",".">>,
     <<"C","a","r","r","i","e","r">>,
     <<"S","e","r","v","i","c","e"," ","T","y","p","e">>,
     <<"S","h","i","p"," ","D","a","t","e">> >>

DEFAULT_HEADER_ROW == 7
DEFAULT_DATA_START_ROW == 10

\* the loop of _detect_data_structure from row_idx on; row row_idx of the
\* sheet (counted from 0) is df[row_idx + 1]
RECURSIVE DetectFrom(_, _)
DetectFrom(df, row_idx) ==
  IF row_idx >= Min(15, Len(df))
    THEN << DEFAULT_HEADER_ROW, DEFAULT_DATA_START_ROW >>
    ELSE
      LET row_str == Lower(JoinText(RowTexts(df[row_idx + 1])))
          matches == Cardinality({ i \in 1..Len(header_indicators) :
                                     Contains(row_str, Lower(header_indicators[i])) })
      IN IF matches >= 2 THEN << row_idx, row_idx + 2 >>
         ELSE DetectFrom(df, row_idx + 1)

\* the loop started at the first row of the sheet
DetectFromFirstRow(sheet) == DetectFrom(sheet, 0)

\* ModernTMSProcessor._detect_data_structure
detect_data_structure(sheet) == DetectFrom(sheet, 5)

\* a row of the raw sheet, as its cells of sheet columns 2..22
WideRow(cells) ==
  [i \in 1..Len(base_column_names) |-> IF i <= Len(cells) THEN cells[i] ELSE NaN]

\* the header row of a report, with the labels of its first two columns
HeaderRow ==
  WideRow(<< Str(<<"L","o","a","d"," ","N","o",".">>),
             Str(<<"S","h","i","p"," ","D","a","t","e">>) >>)

\* rows of the top of a sheet: the header row, a single label, a label split
\* over two cells in another case, one label twice
LabelRows ==
  { HeaderRow,
    WideRow(<< NaN, Str(<<"C","a","r","r","i","e","r">>), Num(5) >>),
    WideRow(<< Str(<<"S","E","R","V","I","C","E">>), Str(<<"t","y","p","e">>),
               Str(<<"c","a","r","r","i","e","r">>) >>),
    WideRow(<< Str(<<"C","a","r","r","i","e","r">>), NaN,
               Str(<<"C","a","r","r","i","e","r">>) >>) }

T_AceCarrier == <<"A","c","e"," ","C","a","r","r","i","e","r">>

\* a load whose number starts with another letter and whose carrier has the
\* word Carrier in its name
Row_B7 == RawRow(Str(<<"B","7">>), Str(T_Avon), Str(T_AceCarrier), Str(T_Abc), Num(40))

\* a load of which only the number and the origin city were recorded
Row_A5 == WideRow(<< Str(<<"A","5">>), NaN, Str(<<"T","r","o","y">>) >>)

\* the rows a sheet may hold besides blank ones: label rows and loads
SheetRowKinds == LabelRows \cup { Row_A7, Row_B7, Row_A5 }

BlankRow == WideRow(<< >>)

\* the sheets of the model have at most this many rows
MaxSheetRows == 17

\* at most this many rows of a sheet are not blank
MaxLabelRows == 2

\* the row numbers (counted from 1) that may hold a row that is not blank:
\* one before the rows the detection scans, the first and the last it scans,
\* the one after, the header row and the first data rows of the usual layout
FilledRowNumbers == {5, 6, 8, 11, 12, 15, 16}

\* the sets of row numbers that hold a row that is not blank
LabelPositions(len) ==
  { q \in SUBSET (FilledRowNumbers \cap 1..len) : Cardinality(q) <= MaxLabelRows }

SheetLengths == {0, 7, 12, MaxSheetRows}

\* a sheet of len rows, blank but for the rows placed
RawSheet(len, placed) ==
  [j \in 1..len |-> IF j \in DOMAIN placed THEN placed[j] ELSE BlankRow]

\* self._detect_data_structure(df_raw)
DetectDataStructure ==
  /\ detected = None
  /\ detected' = detect_data_structure(df_raw)
  /\ UNCHANGED << proc_vars, gui_vars, df_raw, layout >>

\* validation_results['validation_steps']['header_detection']['details']
header_info == [header_row |-> 7, data_start_row |-> 10]

\* Config.defaults, data_structure.*
config_data_structure == [default_header_row |-> 8, default_data_start_row |-> 11]

\* header_info.get('header_row', ...), header_info.get('data_start_row', ...)
PipelineLayout ==
  << StatsGet(header_info, "header_row", config_data_structure.default_header_row),
     StatsGet(header_info, "data_start_row",
              config_data_structure.default_data_start_row) >>

\* df_raw.iloc[data_start_row:], as the sheet the rest of the pipeline works on
DataFrom(sheet, data_start_row) ==
  [ncols   |-> Len(base_column_names) + 2,
   headers |-> base_column_names,
   rows    |-> SubSeq(sheet, data_start_row + 1, Len(sheet))]

\* ModernTMSProcessor._extract_title_info on a sheet of len rows: the company
\* name is read from row 3 and the date range from row 5, when the sheet has
\* them
extract_title_info(len) ==
  [k \in { x \in DOMAIN SheetTitle :
             \/ x = "company_name" /\ len > 3
             \/ x = "date_range" /\ len > 5 } |-> SheetTitle[k]]

\* ModernTMSProcessor.clean_and_process_data on the raw sheet:
\* df_raw.iloc[header_row] is an IndexError on a sheet that ends before it
CleanAndProcessSheet ==
  /\ layout = None
  /\ layout' = PipelineLayout
  /\ IF Len(df_raw) <= PipelineLayout[1]
       THEN /\ title_info' = extract_title_info(Len(df_raw))
            /\ outcome' = "RuntimeError"
            /\ UNCHANGED << grid, stages, processed_data, summary_stats >>
       ELSE /\ grid' = DataFrom(df_raw, PipelineLayout[2])
            /\ clean_and_process_data(grid')
  /\ UNCHANGED << engine, same_carrier_savings, TL_CARRIERS, reapplied, gui_vars,
                  df_raw, detected >>

InitDetect ==
  /\ engine = "ModernTMSProcessor"
  /\ grid = Sheet(23, <<>>)
  /\ same_carrier_savings = 0
  /\ TL_CARRIERS = DefaultTLCarriers
  /\ outcome = "idle"
  /\ title_info = [x \in {} |-> <<>>]
  /\ stages = <<>>
  /\ processed_data = None
  /\ summary_stats = [x \in {} |-> 0]
  /\ reapplied = None
  /\ GuiConstructed
  /\ \E len \in SheetLengths :
     \E ps \in LabelPositions(len) :
     \E placed \in [ps -> SheetRowKinds] :
       df_raw = RawSheet(len, placed)
  /\ detected = None
  /\ layout = None

NextDetect ==
  \/ DetectDataStructure
  \/ CleanAndProcessSheet

SpecDetect == InitDetect /\ [][NextDetect]_vars

(***************************************************************************)
(* Properties                                                              *)
(***************************************************************************)
Done == outcome = "ok"

\* the rows given to the rule engine and the rows it returned
PreRows  == stages[1].rows
PostRows == stages[Len(stages)].rows

SelectedFields ==
  << "Selected Carrier", "Selected Service Type", "Selected Transit Days",
     "Selected Freight Cost", "Selected Accessorial Cost", "Selected Total Cost" >>

LeastCostFields ==
  << "Least Cost Carrier", "Least Cost Service Type", "Least Cost Transit Days",
     "Least Cost Freight Cost", "Least Cost Accessorial Cost", "Least Cost Total Cost" >>

\* all six least-cost fields equal the selected fields
Mirrors(r) == \A i \in 1..6 : r[LeastCostFields[i]] = r[SelectedFields[i]]

ZeroSavings(r) == r["Potential Savings"] = Num(0)

IsEmptyText(c) == IsNaN(c) \/ (IsStr(c) /\ c.s = <<>>)

\* selected.carrier == least_cost.carrier, both non-empty
SameCarrier(r) ==
  /\ ~IsEmptyText(r["Selected Carrier"])
  /\ ~IsEmptyText(r["Least Cost Carrier"])
  /\ r["Selected Carrier"] = r["Least Cost Carrier"]

\* a carrier of the row is, ignoring case, a member of the TL-carrier set
HasTLCarrier(r, tl) ==
  \E c \in tl, f \in {"Selected Carrier", "Least Cost Carrier"} :
     IsStr(r[f]) /\ Lower(r[f].s) = Lower(c)

NegativeSavings(r) == IsNum(r["Potential Savings"]) /\ r["Potential Savings"].n < 0

\* the part of selected.carrier after the last '/' equals least_cost.carrier,
\* ignoring case and reading '%' as '&'
AliasSlashMatch(r) ==
  /\ ~IsEmptyText(r["Selected Carrier"])
  /\ ~IsEmptyText(r["Least Cost Carrier"])
  /\ HasSlash(r["Selected Carrier"].s)
  /\ ReplaceChar(Lower(Strip(AfterLastSlash(r["Selected Carrier"].s))), "%", "&")
       = ReplaceChar(Lower(r["Least Cost Carrier"].s), "%", "&")

\* C1 (as stated): applying the rule sequence to the corrected rows yields the
\* same rows, for every configured same_carrier_savings value.
C1_IdempotentAnyConfig ==
  reapplied # None => reapplied = stages[Len(stages)]

\* C1 (amended): applying the rule sequence to the corrected rows yields the
\* same rows whenever the configured same_carrier_savings value is not positive
\* (the default 0 included).
C1_IdempotentNonPositiveSavings ==
  (reapplied # None /\ same_carrier_savings <= 0) => reapplied = stages[Len(stages)]

\* the rules were reapplied, with a non-positive value, to rows they had changed
C1_Witness ==
  /\ reapplied # None
  /\ same_carrier_savings <= 0
  /\ stages[Len(stages)] # stages[1]
  /\ \E j \in 1..Len(PreRows) : IsEmptyText(PreRows[j]["Least Cost Carrier"])

\* C2: after the rule sequence every row has a numeric potential_savings >= 0.
C2_NonNegativeSavings ==
  Done => \A j \in 1..Len(PostRows) :
            /\ IsNum(PostRows[j]["Potential Savings"])
            /\ PostRows[j]["Potential Savings"].n >= 0

\* C3 (as stated): every row whose two carriers were equal and non-empty before
\* the rules ends with potential_savings equal to the configured value.
C3_SameCarrierGetsConfiguredValue ==
  Done => \A j \in 1..Len(PreRows) :
            SameCarrier(PreRows[j])
              => PostRows[j]["Potential Savings"] = Num(same_carrier_savings)

\* C3 (amended): every row whose two carriers were equal and non-empty before
\* the rules ends with potential_savings equal to the configured value, unless
\* that value is negative or one of the carriers is a TL carrier, in which case
\* potential_savings ends 0.
C3_SameCarrierUnlessOverridden ==
  Done => \A j \in 1..Len(PreRows) :
            SameCarrier(PreRows[j])
              => PostRows[j]["Potential Savings"] =
                   IF same_carrier_savings < 0 \/ HasTLCarrier(PreRows[j], TL_CARRIERS)
                     THEN Num(0) ELSE Num(same_carrier_savings)

\* a same-carrier row that is no TL carrier ended with a configured non-zero value
C3_Witness ==
  /\ Done
  /\ same_carrier_savings > 0
  /\ \E j \in 1..Len(PreRows) :
       /\ SameCarrier(PreRows[j])
       /\ ~HasTLCarrier(PreRows[j], TL_CARRIERS)
       /\ PreRows[j]["Potential Savings"] # Num(same_carrier_savings)
       /\ PostRows[j]["Potential Savings"] = Num(same_carrier_savings)

\* C4: every row whose least-cost carrier was empty or null before the rules
\* ends with the six least-cost fields equal to the selected fields and
\* potential_savings 0.
C4_EmptyLeastCostClosure ==
  Done => \A j \in 1..Len(PreRows) :
            IsEmptyText(PreRows[j]["Least Cost Carrier"])
              => Mirrors(PostRows[j]) /\ ZeroSavings(PostRows[j])

\* a row with an empty least-cost carrier, differing costs and non-zero savings
\* was corrected
C4_Witness ==
  /\ Done
  /\ \E j \in 1..Len(PreRows) :
       /\ IsEmptyText(PreRows[j]["Least Cost Carrier"])
       /\ ~IsEmptyText(PreRows[j]["Selected Carrier"])
       /\ PreRows[j]["Least Cost Total Cost"] # PreRows[j]["Selected Total Cost"]
       /\ PreRows[j]["Potential Savings"] = Num(150)
       /\ Mirrors(PostRows[j])

C6_TLCarrierRule ==
  Done => \A j \in 1..Len(PreRows) :
            HasTLCarrier(PreRows[j], TL_CARRIERS)
              => Mirrors(PostRows[j]) /\ ZeroSavings(PostRows[j])

\* only its least-cost carrier, written in another case than the added TL
\* carrier, made a row with positive savings a TL row, and it was corrected
C6_Witness ==
  /\ Done
  /\ TL_CARRIERS # DefaultTLCarriers
  /\ \E j \in 1..Len(PreRows) :
       /\ HasTLCarrier(PreRows[j], TL_CARRIERS)
       /\ ~HasTLCarrier(PreRows[j], DefaultTLCarriers)
       /\ PreRows[j]["Least Cost Carrier"].s \notin TL_CARRIERS
       /\ PreRows[j]["Selected Carrier"] = Str(T_DdiRL)
       /\ PreRows[j]["Potential Savings"] = Num(150)
       /\ Mirrors(PostRows[j]) /\ ZeroSavings(PostRows[j])

\* C7: every row whose selected carrier has a '/' and whose part after the last
\* '/' matches the least-cost carrier (ignoring case, '&' and '%' alike) ends
\* with the least-cost fields equal to the selected fields and potential_savings
\* 0; the alias rule leaves every other row as it found it.
C7_AliasSlashRule ==
  (Done /\ engine = "ModernTMSProcessor") => \A j \in 1..Len(PreRows) :
            IF AliasSlashMatch(PreRows[j])
              THEN Mirrors(PostRows[j]) /\ ZeroSavings(PostRows[j])
              ELSE stages[6].rows[j] = stages[5].rows[j]

\* the alias rule alone corrected a row matching through '&' / '%'
C7_Witness ==
  /\ Done
  /\ engine = "ModernTMSProcessor"
  /\ \E j \in 1..Len(PreRows) :
       /\ AliasSlashMatch(PreRows[j])
       /\ PreRows[j]["Selected Carrier"] = Str(T_DdiRL)
       /\ PreRows[j]["Least Cost Carrier"] = Str(T_rl)
       /\ stages[5].rows[j] = PreRows[j]
       /\ stages[6].rows[j] # stages[5].rows[j]
       /\ Mirrors(PostRows[j])

\* the columns no rule may write
FrameColumns(df) == Range(df.cols) \ (Range(LeastCostFields) \cup {"Potential Savings"})

\* C8: after every rule the dataframe has the same columns and the same number
\* of rows as the input, and every row has, at its position, the input row's
\* value in every column other than the six least-cost columns and
\* Potential Savings.
C8_RulesWriteOnlyLeastCostAndSavings ==
  Done => \A k \in 1..Len(stages) :
            /\ stages[k].cols = stages[1].cols
            /\ Len(stages[k].rows) = Len(PreRows)
            /\ \A j \in 1..Len(PreRows) :
                 /\ DOMAIN stages[k].rows[j] = DOMAIN PreRows[j]
                 /\ \A c \in FrameColumns(stages[1]) :
                      stages[k].rows[j][c] = PreRows[j][c]

\* the rules changed a dataframe of several rows with different load ids
C8_Witness ==
  /\ Done
  /\ Len(PreRows) >= 2
  /\ PreRows[1]["Load No."] # PreRows[2]["Load No."]
  /\ \E j \in 1..Len(PreRows) : ~Mirrors(PreRows[j]) /\ Mirrors(PostRows[j])

\* the sheet has a Potential Savings column
SheetHasSavingsColumn == "Potential Savings" \in Range(grid.headers)

\* some cell of the sheet's Potential Savings column parses to a number
SheetHasParsableSavings ==
  /\ SheetHasSavingsColumn
  /\ \E j \in 1..Len(grid.rows) : ~IsNaN(ToNumeric(grid.rows[j][Len(base_column_names)]))

\* selected.total_cost - least_cost.total_cost, 0 where least_cost.total_cost is 0
CostDifference(r) ==
  IF r["Least Cost Total Cost"] = Num(0) THEN Num(0)
  ELSE Num(r["Selected Total Cost"].n - r["Least Cost Total Cost"].n)

\* C9: load_data keeps an existing Potential Savings column only when some raw
\* value of it parses to a number; when the column is absent or holds no
\* parsable value every row gets selected.total_cost - least_cost.total_cost,
\* 0 where least_cost.total_cost is 0.
C9_SavingsDerivedUnlessParsable ==
  (Done /\ engine = "TMSProcessor" /\ ~SheetHasParsableSavings)
    => \A j \in 1..Len(PreRows) : PreRows[j]["Potential Savings"] = CostDifference(PreRows[j])

\* the savings of a row, a null counting for nothing
RowSavings(r) == IF IsNum(r["Potential Savings"]) THEN r["Potential Savings"].n ELSE 0

RECURSIVE SavingsOfFirst(_, _)
SavingsOfFirst(rows, n) ==
  IF n = 0 THEN 0 ELSE SavingsOfFirst(rows, n - 1) + RowSavings(rows[n])

\* the two sequences hold the same rows, each as often
SameRows(a, b) ==
  /\ Len(a) = Len(b)
  /\ \A r \in Range(a) \cup Range(b) :
       Cardinality({j \in 1..Len(a) : a[j] = r}) = Cardinality({j \in 1..Len(b) : b[j] = r})

\* C10: after a successful run total_potential_savings is the sum of
\* potential_savings over the returned rows, total_loads is their number, and
\* the returned rows are the corrected rows.
C10_SumConsistency ==
  Done => /\ summary_stats.total_potential_savings
             = SavingsOfFirst(processed_data.rows, Len(processed_data.rows))
          /\ summary_stats.total_loads = Len(processed_data.rows)
          /\ SameRows(processed_data.rows, PostRows)

\* several rows were returned in another order than the rules left them, with a
\* positive total that differs from the total before the rules
C10_Witness ==
  /\ Done
  /\ Len(processed_data.rows) >= 2
  /\ processed_data.rows # PostRows
  /\ summary_stats.total_potential_savings > 0
  /\ summary_stats.total_potential_savings # SavingsOfFirst(PreRows, Len(PreRows))

\* the statistics kept as a quotient, and the one kept as a cell
RatioStatistics == {"average_savings_per_load", "percentage_savings"}
CellStatistics  == {"max_single_saving"}

\* the statistic is the number 0 (a quotient 0/0 is null, not 0)
StatisticIsZero(name, value) ==
  IF name \in RatioStatistics THEN value.num = 0 /\ value.den # 0
  ELSE IF name \in CellStatistics THEN value = Num(0)
  ELSE value = 0

\* C11: in every entry point, summary statistics computed over zero rows are
\* all reported and all equal to 0.
C11_EmptyInputAllZero ==
  (Done /\ PostRows = <<>>)
    => /\ "total_loads" \in DOMAIN summary_stats
       /\ \A name \in DOMAIN summary_stats : StatisticIsZero(name, summary_stats[name])

\* the row has a destination city
HasDestination(r) ==
  IsStr(r["Destination City"]) /\ r["Destination City"].s # <<>>

\* the returned rows are the corrected rows laid out in an order that keeps
\* rows of equal destination city in their prior relative order
KeepsOrderOfEqualDestinations(out, prior) ==
  \E p \in Orderings(Len(out)) :
     /\ Len(prior) = Len(out)
     /\ \A i \in 1..Len(out) : out[i] = prior[p[i]]
     /\ \A i, j \in 1..Len(out) :
          (i < j /\ out[i]["Destination City"] = out[j]["Destination City"])
            => p[i] < p[j]

\* C12: the returned rows are sorted by destination city ascending, rows of
\* equal destination city keep their prior relative order, and every row
\* without a destination city comes after all rows that have one.
C12_OutputOrdering ==
  Done =>
    LET out == processed_data.rows
    IN /\ \A i, j \in 1..Len(out) :
            i < j =>
              /\ (HasDestination(out[i]) /\ HasDestination(out[j]))
                   => ~TextLess(out[j]["Destination City"].s, out[i]["Destination City"].s)
              /\ ~HasDestination(out[i]) => ~HasDestination(out[j])
       /\ KeepsOrderOfEqualDestinations(out, PostRows)

\* the columns the normalizer works on have no 'Load No.': ModernTMSProcessor
\* names its columns by position, the other engines by the sheet's header row
LoadNoAbsent ==
  engine # "ModernTMSProcessor" /\ "Load No." \notin Range(grid.headers)

\* C13: a sheet without a Load No. column ends in a validation error and no
\* row set, and a sheet that has one never raises for want of another column.
C13_LoadNoAbsentIsValidationError ==
  outcome # "idle" =>
    IF LoadNoAbsent
      THEN outcome \in {"ValueError", "ValidationError"} /\ processed_data = None
      ELSE outcome = "ok"

\* the worker thread (or the example script) has run to its end
WorkerEnded == worker_pc = "idle" /\ batch # <<>>

\* C14: when a file of the batch raises while it is processed or saved, every
\* later file of the batch is still handed to the processor, so that once
\* the worker has ended every file of the batch has been attempted.
C14_BatchFaultIsolation ==
  WorkerEnded => attempted = 1..Len(batch)

\* the worker ended without having saved every file of the batch
BatchFailed == WorkerEnded /\ Len(processed_files) < Len(batch)

\* the window accepts a new batch
UiIdle == process_btn = "normal" /\ browse_btn = "normal" /\ ~processing

ErrorReports ==
  { i \in 1..Len(shown) : shown[i].kind \in {"error_log", "error_dialog"} }

\* C15: a failure of process_file reaches its caller as FileNotFoundError,
\* ValueError or RuntimeError, and when a batch of a window failed, the user
\* has been shown an error report by the time the window is idle again.
C15_NoFailureSwallowed ==
  /\ engine = "ModernTMSProcessor" =>
       outcome \in {"idle", "ok", "FileNotFoundError", "ValueError", "RuntimeError"}
  /\ (engine # "TMSProcessor" /\ BatchFailed /\ UiIdle /\ after_queue = <<>>) =>
       ErrorReports # {}

\* C16: at most one batch worker is alive at any time: a click on the
\* process button while a batch is in progress starts no second worker.
C16_SingleWorker ==
  /\ running <= 1
  /\ worker_pc # "idle" => running = 1

\* a click arrived while the worker was at work on a file
C16_Witness ==
  /\ last_request = "ignored"
  /\ worker_pc = "save"
  /\ running = 1

\* the total_potential_savings of the pipeline run on sheet g
SheetSavings(g) ==
  CASE engine = "ModernTMSProcessor" ->
         SumColumn(RuleStages(NormalizedFrame(g), TL_CARRIERS,
                              same_carrier_savings)[6].rows, "Potential Savings")
    [] engine = "TMSProcessor" ->
         SumColumn(CoreRuleStages(load_data(g), TL_CARRIERS)[5].rows,
                   "Potential Savings")
    [] OTHER ->
         SumColumn(BasicRuleStages(BasicLoadData(g), TL_CARRIERS)[5].rows,
                   "Potential Savings")

RECURSIVE SavingsOfFiles(_)
SavingsOfFiles(files) ==
  IF files = <<>> THEN 0
  ELSE SheetSavings(Head(files).grid) + SavingsOfFiles(Tail(files))

\* C17: the running total of the worker is the sum of the totals of the files
\* it has processed and saved so far, the file it is at is not among them,
\* and a completion summary of a window reports the sum over all files of
\* the batch.
C17_RunningTotals ==
  /\ total_savings =
       SavingsOfFiles([k \in 1..Len(processed_files) |-> batch[processed_files[k]]])
  /\ \A k \in 1..Len(processed_files) : processed_files[k] < file_no
  /\ \A i \in 1..Len(shown) :
       (shown[i].kind = "summary" /\ engine # "TMSProcessor") =>
         /\ shown[i].files = Len(batch)
         /\ shown[i].total = SavingsOfFiles(batch)

\* a window reports a batch of two files with different totals
C17_Witness ==
  /\ engine # "TMSProcessor"
  /\ Len(batch) = 2
  /\ SheetSavings(batch[1].grid) # SheetSavings(batch[2].grid)
  /\ \E i \in 1..Len(shown) : shown[i].kind = "summary" /\ shown[i].total > 0

\* C18: the three rule engines return identical corrected rows on every input
\* row set (ModernTMSProcessor with same_carrier_savings 0).
C18_EnginesAgree ==
  (Done /\ same_carrier_savings = 0) =>
    /\ apply_business_rules(stages[1], TL_CARRIERS).rows
         = basic_apply_business_rules(stages[1], TL_CARRIERS).rows
    /\ apply_business_rules(stages[1], TL_CARRIERS).rows
         = apply_business_logic_enhanced(stages[1], TL_CARRIERS, 0).rows

\* rule k (1..5) matches row r, by the match condition the rules are stated with
RuleMatches(k, r) ==
  CASE k = 1 -> SameCarrier(r)
    [] k = 2 -> IsEmptyText(r["Least Cost Carrier"])
    [] k = 3 -> NegativeSavings(r)
    [] k = 4 -> HasTLCarrier(r, TL_CARRIERS)
    [] OTHER -> AliasSlashMatch(r)

\* the rules that matched row j, each on the rows left by the rules before it
MatchingRules(j) ==
  { k \in 1..(Len(stages) - 1) : RuleMatches(k, stages[k].rows[j]) }

LastOf(S) == CHOOSE k \in S : \A m \in S : m <= k

\* the number of the rows whose matching rules, listed in matching, include k
MatchCount(matching, k) ==
  Cardinality({ j \in DOMAIN matching : k \in matching[j] })

\* C19: the rules run in the order R1..R5, each matching on the rows left by
\* the rules before it: a row no rule matched is returned as it was given, a
\* row ends as the last rule that matched it wrote it (R1: the configured
\* savings with the least-cost fields as R1 found them; R2..R5: the selected
\* fields mirrored and savings 0), and each audit count is the number of rows
\* its rule matched when it ran.
C19_RuleOrdering ==
  (Done /\ reapplied = None /\ engine \in {"ModernTMSProcessor", "TMSProcessor"}) =>
    \E matching \in { [j \in 1..Len(PreRows) |-> MatchingRules(j)] } :
      /\ \A j \in 1..Len(PreRows) :
           IF matching[j] = {} THEN PostRows[j] = PreRows[j]
           ELSE IF LastOf(matching[j]) = 1
             THEN PostRows[j] = [PreRows[j] EXCEPT
                                   !["Potential Savings"] = Num(same_carrier_savings)]
             ELSE /\ Mirrors(PostRows[j])
                  /\ ZeroSavings(PostRows[j])
                  /\ PostRows[j] = stages[LastOf(matching[j]) + 1].rows[j]
      /\ engine = "ModernTMSProcessor" =>
           \E counts \in { [k \in 1..5 |-> MatchCount(matching, k)] } :
             business_stats(stages, TL_CARRIERS) =
               [same_carrier_rule_applied     |-> counts[1],
                empty_data_rule_applied       |-> counts[2],
                negative_savings_rule_applied |-> counts[3],
                tl_carrier_rule_applied       |-> counts[4],
                ddi_carrier_rule_applied      |-> counts[5],
                total_rows_affected |-> counts[1] + counts[2] + counts[3]
                                          + counts[4] + counts[5]]

\* a same-carrier row that is also a TL-carrier row, with a configured value
\* other than 0
C19_Witness ==
  /\ Done
  /\ engine = "ModernTMSProcessor"
  /\ same_carrier_savings # 0
  /\ \E j \in 1..Len(PreRows) :
        /\ {1, 4} \subseteq MatchingRules(j)
        /\ ZeroSavings(PostRows[j])

\* the header labels contained, ignoring case, in the joined text of a row
LabelsIn(row) ==
  { i \in 1..Len(header_indicators) :
      Contains(Lower(JoinText(RowTexts(row))), Lower(header_indicators[i])) }

\* the rows 5..14 of the sheet (counted from 0) that hold two labels or more
HeaderCandidates ==
  { r \in 5..14 : r < Len(df_raw) /\ Cardinality(LabelsIn(df_raw[r + 1])) >= 2 }

\* C20: _detect_data_structure returns (r, r + 2) for the smallest row index
\* r in 5..14, inside the sheet, whose joined non-null cells contain at least
\* two distinct header labels, ignoring case, and (7, 10) when there is none.
C20_HeaderDetection ==
  detected # None =>
    IF HeaderCandidates = {}
      THEN detected = << 7, 10 >>
      ELSE \E r \in HeaderCandidates :
             /\ \A q \in HeaderCandidates : r <= q
             /\ detected = << r, r + 2 >>

\* a sheet with two candidate rows
C20_Witness ==
  /\ detected # None
  /\ Cardinality(HeaderCandidates) >= 2
  /\ detected # << 7, 10 >>

\* the sheet was sliced and _detect_data_structure has run on it
LayoutKnown == layout # None /\ detected # None

\* C21: the header row and the first data row the pipeline slices the sheet
\* at are the ones _detect_data_structure finds on that sheet.
C21_PipelineUsesDetectedLayout ==
  LayoutKnown => layout = detected

\* the canonical names of the columns a sheet of ncols columns has from
\* index 2 on, 21 at most
AvailableNames(ncols) == column_names(Min(Len(base_column_names), ncols - 2))

\* C22: on a sheet of any width clean_and_process_data does not raise at the
\* column extraction, and the frame given to the rules has the canonical
\* names of the columns available from index 2 on, in order.
C22_ColumnMismatchNonFatal ==
  (engine = "ModernTMSProcessor" /\ outcome # "idle") =>
     /\ outcome = "ok"
     /\ stages[1].cols = AvailableNames(grid.ncols)

\* str.isalpha() on one character
IsLetter(c) == c \in DOMAIN UpperOf \/ c \in DOMAIN LowerOf

\* a cell whose text is one letter followed by digits
HasIdentifierCell(row) ==
  \E i \in 1..Len(RowTexts(row)) :
     LET t == RowTexts(row)[i]
     IN Len(t) >= 2 /\ IsLetter(t[1]) /\ IsDigitStr(Tail(t))

\* the rows of the sheet from data_start_row on
SlicedRows == SubSeq(df_raw, layout[2] + 1, Len(df_raw))

\* the Load No. values of the frame given to the rules
LoadsKept == { r["Load No."].s : r \in Range(stages[1].rows) }

\* C23: a row of the data region that has a cell of the form one letter
\* followed by digits is not removed as a duplicate header, whatever the
\* letter and even if a cell of the row contains a marker token: with its
\* load number and five values or more it is in the frame given to the rules.
C23_IdentifierRowsKept ==
  (layout # None /\ outcome = "ok") =>
     \A j \in 1..Len(SlicedRows) :
        ( /\ HasIdentifierCell(SlicedRows[j])
          /\ IsStr(SlicedRows[j][1])
          /\ NonNullCount(SlicedRows[j]) >= min_non_empty_values )
        => SlicedRows[j][1].s \in LoadsKept

\* C24: a row of the data region with fewer than min_non_empty_values
\* non-null values as read is absent from the frame given to the rules.
C24_SparseRowsDropped ==
  (layout # None /\ outcome = "ok") =>
     \A j \in 1..Len(SlicedRows) :
        ( /\ NonNullCount(SlicedRows[j]) < min_non_empty_values
          /\ IsStr(SlicedRows[j][1]) )
        => SlicedRows[j][1].s \notin LoadsKept

\* the cost, transit-days and savings columns of the frame given to the rules
NumericFields == { c \in Range(numeric_columns) : HasCol(stages[1], c) }

\* C25: after normalization every cost, transit-days and savings field of
\* every row holds a number, in every engine; a cell that was blank or not
\* parsable holds 0.
C25_NumericCoercion ==
  Done =>
    \A j \in 1..Len(PreRows) : \A c \in NumericFields :
       /\ IsNum(PreRows[j][c])
       /\ \A k \in 1..Len(grid.rows) :
            \A p \in 1..Len(grid.rows[k]) :
               ( /\ base_column_names[p] = c
                 /\ HasCol(stages[1], "Load No.")
                 /\ IsStr(grid.rows[k][1])
                 /\ PreRows[j]["Load No."] = grid.rows[k][1]
                 /\ IsNaN(ToNumeric(grid.rows[k][p])) )
               => PreRows[j][c] = Num(0)

\* the carrier and service-type columns of the frame given to the rules
DescriptiveFields == { c \in Range(core_string_columns) : HasCol(stages[1], c) }

\* the texts of a least-cost cell read as zero
ZeroTexts == { <<"0">>, <<"0",".","0">> }

\* C26: after normalization no carrier or service-type field is the text
\* 'nan' or 'None' or has surrounding blanks, and no least-cost carrier or
\* service type is the text of a zero (such a cell is the empty string).
C26_StringNormalization ==
  (Done /\ engine \in {"ModernTMSProcessor", "TMSProcessor"}) =>
    \A j \in 1..Len(PreRows) : \A c \in DescriptiveFields :
       /\ IsStr(PreRows[j][c])
       /\ PreRows[j][c].s \notin {NanText, NoneText}
       /\ Strip(PreRows[j][c].s) = PreRows[j][c].s
       /\ c \in {"Least Cost Carrier", "Least Cost Service Type"}
            => PreRows[j][c].s \notin ZeroTexts

\* a call of clean_and_process_data that raises
CallRaises ==
  /\ engine = "ModernTMSProcessor"
  /\ outcome = "idle"
  /\ outcome' \notin {"idle", "ok"}

\* C27: a call of clean_and_process_data that raises leaves title_info,
\* processed_data and summary_stats as they were before the call.
C27_FailureLeavesProcessorUnchanged ==
  [][CallRaises => /\ title_info' = title_info
                   /\ processed_data' = processed_data
                   /\ summary_stats' = summary_stats]_vars

\* process_files of the window of basic_processor.py has started a worker
BatchStarted == engine = "ModernTMSProcessor" /\ processing

\* the window is idle and its worker has ended: a click starts a new batch
ReadyForNewBatch == UiIdle /\ worker_pc = "idle" /\ running = 0

\* C28: once process_files has started a worker the window eventually
\* returns to the idle state (processing False, process and browse buttons
\* enabled, no worker alive), whether or not a file raised.
C28_BatchCompletion == BatchStarted ~> ReadyForNewBatch

\* the window is idle again after a batch in which a file raised
C28_Witness ==
  /\ engine = "ModernTMSProcessor"
  /\ last_request = "started"
  /\ BatchFailed
  /\ ReadyForNewBatch
  /\ after_queue = <<>>

\* the six least-cost fields of row j are as they were before the rules
GroupKept(j) ==
  \A i \in 1..6 : PostRows[j][LeastCostFields[i]] = PreRows[j][LeastCostFields[i]]

\* C29: after the rule sequence the six least-cost fields of a row either
\* all equal the row's selected fields or are all as they were before the
\* rules, and a row whose least-cost fields were overwritten has
\* potential_savings 0.
C29_AllOrNothingCorrection ==
  (Done /\ engine = "ModernTMSProcessor") =>
     \A j \in 1..Len(PreRows) :
        /\ Mirrors(PostRows[j]) \/ GroupKept(j)
        /\ ~GroupKept(j) => ZeroSavings(PostRows[j])

\* one sheet with a row whose six fields were overwritten and a row whose
\* fields, different from the selected ones, were kept
C29_Witness ==
  /\ Done
  /\ engine = "ModernTMSProcessor"
  /\ \E j, k \in 1..Len(PreRows) :
       /\ ~GroupKept(j)
       /\ \A i \in 1..6 : PostRows[j][LeastCostFields[i]] # PreRows[j][LeastCostFields[i]]
       /\ GroupKept(k)
       /\ ~Mirrors(PostRows[k])

\* C30: after a successful run total_savings_opportunity (the savings summed
\* over the rows with positive savings) equals total_potential_savings, and
\* loads_with_savings is at most total_loads.
C30_SavingsOpportunity ==
  (Done /\ engine = "ModernTMSProcessor") =>
     /\ summary_stats.total_savings_opportunity = summary_stats.total_potential_savings
     /\ summary_stats.loads_with_savings <= summary_stats.total_loads

\* a run with a row of negative savings before the rules, a row without
\* savings and a row with savings after them
C30_Witness ==
  /\ Done
  /\ engine = "ModernTMSProcessor"
  /\ \E j \in 1..Len(PreRows) : NegativeSavings(PreRows[j])
  /\ summary_stats.total_potential_savings > 0
  /\ 0 < summary_stats.loads_with_savings
  /\ summary_stats.loads_with_savings < summary_stats.total_loads

====
